---- MODULE Spec2Model ----
(***************************************************************************)
(* Media organisation pipeline of Omoide_Porter: FileInfo records, sidecar *)
(* association, target path generation, path conflict resolution, the copy *)
(* stage, and the priority-ordered FilterChain.                            *)
(*                                                                         *)
(* Paths are sequences of one-character strings, so that os.path.splitext, *)
(* os.path.basename, os.path.dirname, str.lower and the f-string of the    *)
(* rename policy are computed character by character.                      *)
(***************************************************************************)
EXTENDS Integers, Sequences, FiniteSets, TLC

\* ------------------------------------------------------------------ bounds
\* Longest discovery list a scan returns.
MaxFiles == 3
\* Longest target path the rename policy may produce (caps repeated renames).
MaxPathLen == 9
\* Most filters registered on one chain.
MaxFilters == 3
\* Most records one chain evaluates to a decision.
MaxEvaluations == 2
\* Most render calls on one SequenceElement before a further run starts.
MaxRenders == 11

\* ------------------------------------------------------------ the source tree
\* Files on disk: original path |-> modification time.
SourceTree ==
    (<<"p", "/", "a", ".", "j">> :> 1) @@
    (<<"p", "/", "a", ".", "x">> :> 2) @@
    (<<"q", "/", "a", ".", "X">> :> 3) @@
    (<<"p", "/", "a", "_", "1", ".", "x">> :> 2) @@
    (<<"p", "/", "a", ".", "r">> :> 1) @@
    (<<"p", "/", "a", ".", "e">> :> 2) @@
    (<<"p", "/", "b">> :> 1)

Files == DOMAIN SourceTree

\* The entries a scan hands to the organising pipeline.
PipelineFiles ==
    {<<"p", "/", "a", ".", "j">>, <<"p", "/", "a", ".", "x">>,
     <<"q", "/", "a", ".", "X">>, <<"p", "/", "a", "_", "1", ".", "x">>}

\* Destination root handed to generate_target_paths.
destination_root == <<"r">>

\* associated_file_extensions, as configured (default list holds xmp, thm, aae).
associated_file_extensions == {<<"x">>, <<"e">>}

\* target_path before generation (Python None).
None == <<>>

\* ------------------------------------------------------------ string helpers
\* Index of the last occurrence of c in s, 0 if absent (str.rfind + 1).
RECURSIVE RFind(_, _)
RFind(s, c) ==
    IF s = <<>> THEN 0
    ELSE IF s[Len(s)] = c THEN Len(s)
    ELSE RFind(SubSeq(s, 1, Len(s) - 1), c)

basename(p) == SubSeq(p, RFind(p, "/") + 1, Len(p))

dirname(p) ==
    LET i == RFind(p, "/") IN IF i = 0 THEN <<>> ELSE SubSeq(p, 1, i - 1)

\* os.path.splitext: split at the last dot of the last component, unless
\* that component consists of leading dots only up to that dot.
splitext(p) ==
    LET sepIndex == RFind(p, "/")
        dotIndex == RFind(p, ".")
    IN  IF dotIndex > sepIndex
           /\ \E k \in (sepIndex + 1)..(dotIndex - 1) : p[k] # "."
        THEN <<SubSeq(p, 1, dotIndex - 1), SubSeq(p, dotIndex, Len(p))>>
        ELSE <<p, <<>>>>

UpperCase == <<"A", "B", "C", "D", "E", "F", "G", "H", "I", "J", "K", "L", "M",
               "N", "O", "P", "Q", "R", "S", "T", "U", "V", "W", "X", "Y", "Z">>
LowerCase == <<"a", "b", "c", "d", "e", "f", "g", "h", "i", "j", "k", "l", "m",
               "n", "o", "p", "q", "r", "s", "t", "u", "v", "w", "x", "y", "z">>

LowerChar(c) ==
    IF \E k \in 1..26 : UpperCase[k] = c
    THEN LowerCase[CHOOSE k \in 1..26 : UpperCase[k] = c]
    ELSE c

lower(s) == [k \in 1..Len(s) |-> LowerChar(s[k])]

\* s.startswith(prefix), s.endswith(suffix), sub in s.
StartsWith(s, prefix) ==
    Len(prefix) <= Len(s) /\ SubSeq(s, 1, Len(prefix)) = prefix

EndsWith(s, suffix) ==
    Len(suffix) <= Len(s) /\ SubSeq(s, Len(s) - Len(suffix) + 1, Len(s)) = suffix

Contains(s, sub) ==
    \E k \in 1..(Len(s) - Len(sub) + 1) : SubSeq(s, k, k + Len(sub) - 1) = sub

Digits == {"0", "1", "2", "3", "4", "5", "6", "7", "8", "9"}

\* Decimal rendering of a positive integer (f"{i}").
RECURSIVE str(_)
str(n) ==
    LET d == <<"0", "1", "2", "3", "4", "5", "6", "7", "8", "9">>[(n % 10) + 1]
    IN  IF n < 10 THEN <<d>> ELSE str(n \div 10) \o <<d>>

\* re.sub(r'[<>:"/\\|?*]', "_", part)
sanitize(part) ==
    [k \in 1..Len(part) |->
        IF part[k] \in {"<", ">", ":", "\"", "/", "\\", "|", "?", "*"}
        THEN "_" ELSE part[k]]

\* ------------------------------------------------------------ FileInfo fields
original_filename(f) == basename(f)

original_extension(f) ==
    LET e == lower(splitext(original_filename(f))[2])
    IN  IF e = <<>> THEN <<>> ELSE SubSeq(e, 2, Len(e))

last_modified(f) == SourceTree[f]

\* ------------------------------------------------------------ filter defaults
\* Python None in place of a datetime, and in place of a date string.
NoDatetime == [day |-> 0, time |-> 0]
NoString == [format |-> "", day |-> 0, time |-> 0]

\* The attributes the filter constructors give an empty configuration.
DefaultMediaType == [include_types |-> {}, exclude_types |-> {}]

DefaultScreenshot ==
    [exclude_screenshots |-> TRUE, enable_filename_pattern |-> TRUE,
     enable_path_pattern |-> TRUE, enable_metadata_pattern |-> TRUE,
     enable_resolution_detection |-> TRUE, custom_patterns |-> <<>>,
     device_type |-> "auto"]

DefaultDateRange ==
    [startDate |-> NoString, endDate |-> NoString, use_metadata_date |-> TRUE,
     use_file_modified_date |-> FALSE, date_field |-> "datetime"]

DefaultConfig ==
    [media_type |-> DefaultMediaType, screenshot |-> DefaultScreenshot,
     date_range |-> DefaultDateRange]

\* FileInfo.metadata as MetadataExtractor fills it; an absent key and a falsy
\* value read the same through dict.get in every filter.
NoMetadata ==
    [datetime |-> NoString, dateTimeOriginal |-> NoString,
     dateTimeDigitized |-> NoString, image_description |-> <<>>,
     software |-> <<>>, width |-> 0, height |-> 0]

\* FilterStats.__init__
EmptyStats ==
    [total_files |-> 0, included_files |-> 0, excluded_files |-> 0,
     exclusion_by_filter |-> <<>>]

\* ------------------------------------------------------------------- state
VARIABLES
    file_info_list,     \* the flat record list, in discovery order
    status,             \* FileInfo.status
    error_message,      \* FileInfo.error_message
    target_path,        \* FileInfo.target_path
    associated_files,   \* FileInfo.associated_files
    op,                 \* the call that produced this state, with its arguments
    success_count,      \* return value of the last copy_files
    progress_calls,     \* progress_callback invocations of the last copy_files
    copy_attempts,      \* shutil.copy2 calls of the last copy_files
    filters,            \* FilterChain.filters
    registered,         \* enabled filters in the order add_filter received them
    filter_config,      \* the configuration the filters were constructed from
    stats,              \* FilterChain.stats
    metadata,           \* FileInfo.metadata
    hash,               \* FileInfo.hash
    _is_screenshot_cache,   \* FileInfo._is_screenshot_cache
    _counter,           \* SequenceElement._counter, per element instance
    cancel_requested    \* whether the user has asked to abort the run

vars == <<file_info_list, status, error_message, target_path, associated_files,
          op, success_count, progress_calls, copy_attempts, filters, registered,
          filter_config, stats, metadata, hash, _is_screenshot_cache, _counter,
          cancel_requested>>

pipelineVars == <<file_info_list, status, error_message, target_path,
                  associated_files, success_count, progress_calls, copy_attempts>>

evalVars == <<filter_config, stats>>

chainVars == <<filters, registered, evalVars>>

\* The record fields and requests the organising stages leave alone.
recordVars == <<metadata, hash, _is_screenshot_cache, cancel_requested>>

\* SequenceElement instances, by identity.
SequenceIds == {1, 2}

\* FileInfo.__init__ and SequenceElement.__init__ on the fields above.
fresh_records ==
    /\ metadata = [f \in Files |-> NoMetadata]
    /\ hash = [f \in Files |-> None]
    /\ _is_screenshot_cache = [f \in Files |-> None]
    /\ _counter = [id \in SequenceIds |-> 0]
    /\ cancel_requested = FALSE

Range(s) == {s[k] : k \in 1..Len(s)}

\* Injective sequences over S of length 1..n: what a directory walk can return.
InjSeqs(S, n) ==
    {s \in UNION {[1..k -> S] : k \in 1..n} :
        \A i, j \in 1..Len(s) : i # j => s[i] # s[j]}

\* FileInfo.__init__ for every scanned entry.
Init ==
    /\ file_info_list \in InjSeqs(PipelineFiles, MaxFiles)
    /\ status = [f \in Files |-> "pending"]
    /\ error_message = [f \in Files |-> ""]
    /\ target_path = [f \in Files |-> None]
    /\ associated_files = [f \in Files |-> <<>>]
    /\ op = [name |-> "scan_directory"]
    /\ success_count = 0
    /\ progress_calls = <<>>
    /\ copy_attempts = <<>>
    /\ filters = <<>>
    /\ registered = <<>>
    /\ filter_config = DefaultConfig
    /\ stats = EmptyStats
    /\ fresh_records

\* body(value) with value computed once, as a local variable holds it.
With(value, body(_)) == CHOOSE result \in {body(x) : x \in {value}} : TRUE

\* FileInfo.set_status: the message is stored only when it is non-empty.
set_status(st, f, new_status, message) ==
    [st EXCEPT !.status[f] = new_status,
               !.error_message[f] = IF message # "" THEN message ELSE @]

\* list.sort / sorted with a key: stable, so x goes after every element whose
\* key does not come strictly after its own.  key is a function on the
\* elements; reverse is sorted's reverse flag.
RECURSIVE InsertSorted(_, _, _, _)
InsertSorted(sorted, x, key, reverse) ==
    IF sorted = <<>> THEN <<x>>
    ELSE IF (IF reverse THEN key[x] > key[Head(sorted)]
                        ELSE key[x] < key[Head(sorted)])
         THEN <<x>> \o sorted
         ELSE <<Head(sorted)>> \o InsertSorted(Tail(sorted), x, key, reverse)

RECURSIVE StableSort(_, _, _)
StableSort(s, key, reverse) ==
    IF s = <<>> THEN <<>>
    ELSE InsertSorted(StableSort(SubSeq(s, 1, Len(s) - 1), key, reverse),
                      s[Len(s)], key, reverse)

\* --------------------------------------------------- find_associated_files
\* Grouping key: (directory, base name without extension).
base_name_key(f) == <<dirname(f), splitext(original_filename(f))[1]>>

is_sub_file(f) ==
    original_extension(f) \in {lower(e) : e \in associated_file_extensions}

\* The grouping without the promotion of a first sidecar.
base_name_group_unpromoted(list, key) ==
    LET InGroup(f) == base_name_key(f) = key
        IsSub(f) == is_sub_file(f)
        IsMain(f) == ~is_sub_file(f)
        group == SelectSeq(list, InGroup)
    IN  [main_files |-> SelectSeq(group, IsMain),
         sub_files |-> SelectSeq(group, IsSub)]

\* main_files and sub_files of the group with the given key.
base_name_group(list, key) ==
    LET InGroup(f) == base_name_key(f) = key
        IsSub(f) == is_sub_file(f)
        IsMain(f) == ~is_sub_file(f)
        group == SelectSeq(list, InGroup)
        mains == SelectSeq(group, IsMain)
        subs == SelectSeq(group, IsSub)
    IN  IF mains = <<>> /\ subs # <<>>
        THEN [main_files |-> <<Head(subs)>>, sub_files |-> Tail(subs)]
        ELSE [main_files |-> mains, sub_files |-> subs]

\* Called once, on the freshly scanned list (cli_app.copy_process).
find_associated_files ==
    /\ op.name = "scan_directory"
    /\ associated_files' =
          [f \in Files |->
              LET g == base_name_group(file_info_list, base_name_key(f))
              IN  IF f \in Range(g.main_files)
                  THEN associated_files[f] \o g.sub_files
                  ELSE associated_files[f]]
    /\ op' = [name |-> "find_associated_files",
              associations |->
                 [m \in {f \in Range(file_info_list) :
                           f \in Range(base_name_group(file_info_list,
                                             base_name_key(f)).main_files)}
                     |-> associated_files'[m]]]
    /\ success_count' = 0
    /\ progress_calls' = <<>>
    /\ copy_attempts' = <<>>
    /\ UNCHANGED <<file_info_list, status, error_message, target_path, chainVars,
                   recordVars, _counter>>

\* --------------------------------------------------- PathGenerator
\* The path elements parse_folder_structure / parse_filename_pattern build.
LiteralElement(value) == [type |-> "literal", value |-> value]
MetadataElement(key) == [type |-> "metadata", key |-> key]
OriginalFilenameElement == [type |-> "original_filename"]
SequenceElement(digits, id) == [type |-> "sequence", digits |-> digits, id |-> id]

\* A LiteralElement whose configured value is a number instead of a string.
NumberLiteral(number) == [type |-> "literal", number |-> number]

is_number(element) == element.type = "literal" /\ "number" \in DOMAIN element

\* str.replace(old, new) for a one-character old.
RECURSIVE replace(_, _, _)
replace(s, old, new) ==
    IF s = <<>> THEN <<>>
    ELSE (IF Head(s) = old THEN new ELSE <<Head(s)>>)
            \o replace(Tail(s), old, new)

\* str.strip()
RECURSIVE strip(_)
strip(s) ==
    IF s # <<>> /\ s[1] = " " THEN strip(Tail(s))
    ELSE IF s # <<>> /\ s[Len(s)] = " " THEN strip(SubSeq(s, 1, Len(s) - 1))
    ELSE s

\* The zero padding of f"{n:0{width}d}", applied to the decimal digits.
RECURSIVE zfill(_, _)
zfill(s, width) == IF Len(s) >= width THEN s ELSE zfill(<<"0">> \o s, width)

\* Modification times are midnights of the days of one month.
year_digits == <<"2", "0", "2", "4">>
month_digits == <<"0", "1">>

\* datetime.strftime of a modification time.
strftime(t, fmt) ==
    IF fmt = "%Y" THEN year_digits
    ELSE IF fmt = "%m" THEN month_digits
    ELSE IF fmt = "%d" THEN zfill(str(t), 2)
    ELSE year_digits \o month_digits \o zfill(str(t), 2)
            \o <<"_", "0", "0", "0", "0", "0", "0">>

\* The characters of a date string of the metadata, by its format.
date_chars(date_str) ==
    LET date_part(sep) ==
            year_digits \o <<sep>> \o month_digits \o <<sep>>
                \o zfill(str(date_str.day), 2)
        time_part == <<" ", "0", "0", ":", "0", "0", ":", "0">> \o str(date_str.time)
    IN  IF date_str = NoString THEN <<>>
        ELSE IF date_str.format = "%Y:%m:%d %H:%M:%S" THEN date_part(":") \o time_part
        ELSE IF date_str.format = "%Y-%m-%d %H:%M:%S" THEN date_part("-") \o time_part
        ELSE IF date_str.format = "%Y-%m-%d" THEN date_part("-")
        ELSE IF date_str.format = "%Y/%m/%d" THEN date_part("/")
        ELSE <<"n", "o", "t", " ", "a", " ", "d", "a", "t", "e">>

\* str(file_info.metadata.get(key)), empty for an absent key or a falsy value;
\* the keys the metadata record does not carry read as absent.
metadata_str(f, key) ==
    IF key = "datetime" THEN date_chars(metadata[f].datetime)
    ELSE IF key = "software" THEN metadata[f].software
    ELSE IF key = "image_description" THEN metadata[f].image_description
    ELSE IF key = "width" /\ metadata[f].width # 0 THEN str(metadata[f].width)
    ELSE <<>>

\* MetadataElement.generate
MetadataElement_generate(key, f) ==
    LET value == metadata_str(f, key)
    IN  IF key = "datetime"
        THEN IF value # <<>>
             THEN replace(replace(value, ":", <<>>), " ", <<"_">>)
             ELSE strftime(last_modified(f), "%Y%m%d_%H%M%S")
        ELSE IF value # <<>> THEN sanitize(strip(value))
        ELSE IF key = "year" THEN strftime(last_modified(f), "%Y")
        ELSE IF key = "month" THEN strftime(last_modified(f), "%m")
        ELSE IF key = "day" THEN strftime(last_modified(f), "%d")
        ELSE <<"U", "n", "k", "n", "o", "w", "n">>

\* PathElement.generate with a SequenceElement that starts over at each call.
generate_restarting(element, f, ctr) ==
    IF element.type = "literal" THEN element.value
    ELSE IF element.type = "metadata" THEN MetadataElement_generate(element.key, f)
    ELSE IF element.type = "sequence"
    THEN zfill(str(1), element.digits)
    ELSE splitext(original_filename(f))[1]

\* PathElement.generate of a string-valued element; ctr holds the counters of
\* the SequenceElement instances before the call.
generate(element, f, ctr) ==
    IF element.type = "literal" THEN element.value
    ELSE IF element.type = "metadata" THEN MetadataElement_generate(element.key, f)
    ELSE IF element.type = "sequence"
    THEN zfill(str(ctr[element.id] + 1), element.digits)
    ELSE splitext(original_filename(f))[1]

\* os.path.join of two components.
path_join(a, b) ==
    IF b # <<>> /\ b[1] = "/" THEN b
    ELSE IF a = <<>> \/ a[Len(a)] = "/" THEN a \o b
    ELSE a \o <<"/">> \o b

\* The element loop without the re.sub on each part.
RECURSIVE rendered_parts_unsanitized(_, _, _)
rendered_parts_unsanitized(elements, f, ctr) ==
    IF elements = <<>> THEN [raised |-> FALSE, parts |-> <<>>, ctr |-> ctr]
    ELSE LET element == Head(elements)
         IN  IF is_number(element)
             THEN IF element.number = 0
                  THEN rendered_parts_unsanitized(Tail(elements), f, ctr)
                  ELSE [raised |-> TRUE, parts |-> <<>>, ctr |-> ctr]
             ELSE LET part == generate(element, f, ctr)
                      after == IF element.type = "sequence"
                               THEN [ctr EXCEPT ![element.id] = @ + 1]
                               ELSE ctr
                      rest == rendered_parts_unsanitized(Tail(elements), f, after)
                  IN  [raised |-> rest.raised,
                       parts |-> IF rest.raised THEN <<>>
                                 ELSE (IF part # <<>> THEN <<part>>
                                       ELSE <<>>) \o rest.parts,
                       ctr |-> rest.ctr]

\* The element loop of generate_folder_path and generate_filename: the
\* sanitized non-empty parts, the counters after the generate calls made, and
\* whether re.sub raised TypeError on a truthy part that is not a string.
RECURSIVE rendered_parts(_, _, _)
rendered_parts(elements, f, ctr) ==
    IF elements = <<>> THEN [raised |-> FALSE, parts |-> <<>>, ctr |-> ctr]
    ELSE LET element == Head(elements)
         IN  IF is_number(element)
             THEN IF element.number = 0
                  THEN rendered_parts(Tail(elements), f, ctr)
                  ELSE [raised |-> TRUE, parts |-> <<>>, ctr |-> ctr]
             ELSE LET part == generate(element, f, ctr)
                      after == IF element.type = "sequence"
                               THEN [ctr EXCEPT ![element.id] = @ + 1]
                               ELSE ctr
                      rest == rendered_parts(Tail(elements), f, after)
                  IN  [raised |-> rest.raised,
                       parts |-> IF rest.raised THEN <<>>
                                 ELSE (IF part # <<>> THEN <<sanitize(part)>>
                                       ELSE <<>>) \o rest.parts,
                       ctr |-> rest.ctr]

RECURSIVE join_all(_, _)
join_all(root, parts) ==
    IF parts = <<>> THEN root
    ELSE join_all(path_join(root, Head(parts)), Tail(parts))

RECURSIVE concat_all(_)
concat_all(parts) ==
    IF parts = <<>> THEN <<>> ELSE Head(parts) \o concat_all(Tail(parts))

\* PathGenerator.generate_folder_path; path is None when the call raised.
generate_folder_path(f, folder_elements, root, ctr) ==
    LET rendered == rendered_parts(folder_elements, f, ctr)
    IN  [raised |-> rendered.raised,
         path |-> IF rendered.raised THEN None
                  ELSE join_all(root, rendered.parts),
         ctr |-> rendered.ctr]

\* generate_filename with the extension left to the pattern.
generate_filename_as_rendered(f, filename_elements, ctr) ==
    LET rendered == rendered_parts(filename_elements, f, ctr)
    IN  [raised |-> rendered.raised,
         filename |-> IF rendered.raised THEN None
                      ELSE concat_all(rendered.parts),
         ctr |-> rendered.ctr]

\* PathGenerator.generate_filename; filename is None when the call raised.
generate_filename(f, filename_elements, ctr) ==
    LET rendered == rendered_parts(filename_elements, f, ctr)
        joined == concat_all(rendered.parts)
        filename == IF joined = <<>> THEN <<"f", "i", "l", "e">> ELSE joined
    IN  [raised |-> rendered.raised,
         filename |-> IF rendered.raised THEN None
                      ELSE filename \o <<".">> \o original_extension(f),
         ctr |-> rendered.ctr]

\* PathGenerator.generate_target_path: the folder first, then the filename.
generate_target_path(f, folder_elements, filename_elements, root, ctr) ==
    With(generate_folder_path(f, folder_elements, root, ctr), LAMBDA folder :
        IF folder.raised THEN folder
        ELSE With(generate_filename(f, filename_elements, folder.ctr),
                  LAMBDA name :
                      [raised |-> name.raised,
                       path |-> IF name.raised THEN None
                                ELSE path_join(folder.path, name.filename),
                       ctr |-> name.ctr]))

\* Pattern configurations the presentation layer hands in.
FolderPatterns == {<<>>}
FilenamePatterns == {<<OriginalFilenameElement>>, <<LiteralElement(<<"a">>)>>}

\* --------------------------------------------------- generate_target_paths
\* The message set_status receives from the except branch.
render_error ==
    "Failed to generate target path: expected string or bytes-like object, got 'int'"

\* The loop over file_info.associated_files, inside the try of its owner.
RECURSIVE generate_associated(_, _, _, _, _)
generate_associated(st, owner, assoc_files, folder_elements, filename_elements) ==
    IF assoc_files = <<>> THEN st
    ELSE LET assoc_file == Head(assoc_files)
         IN  With(generate_target_path(assoc_file, folder_elements,
                      filename_elements, destination_root, st.ctr),
                  LAMBDA generated :
             IF generated.raised
             THEN set_status([st EXCEPT !.ctr = generated.ctr],
                             owner, "error", render_error)
             ELSE With([st EXCEPT !.ctr = generated.ctr,
                                  !.target_path[assoc_file] = generated.path],
                       LAMBDA after :
                           generate_associated(after, owner, Tail(assoc_files),
                               folder_elements, filename_elements)))

\* The loop with one try around all of it: the first failure ends the loop.
RECURSIVE generate_loop_aborting(_, _, _, _)
generate_loop_aborting(st, list, folder_elements, filename_elements) ==
    IF list = <<>> THEN st
    ELSE LET f == Head(list)
         IN  With(generate_target_path(f, folder_elements, filename_elements,
                      destination_root, st.ctr),
                  LAMBDA generated :
             IF generated.raised
             THEN set_status([st EXCEPT !.ctr = generated.ctr],
                             f, "error", render_error)
             ELSE With(With([st EXCEPT !.ctr = generated.ctr,
                                       !.target_path[f] = generated.path],
                            LAMBDA rendered :
                                generate_associated(rendered, f,
                                    associated_files[f], folder_elements,
                                    filename_elements)),
                       LAMBDA after :
                           generate_loop_aborting(after, Tail(list),
                               folder_elements, filename_elements)))

\* The loop over file_info_list, one try per record.
RECURSIVE generate_loop(_, _, _, _)
generate_loop(st, list, folder_elements, filename_elements) ==
    IF list = <<>> THEN st
    ELSE LET f == Head(list)
         IN  With(generate_target_path(f, folder_elements, filename_elements,
                      destination_root, st.ctr),
                  LAMBDA generated :
             With(IF generated.raised
                  THEN set_status([st EXCEPT !.ctr = generated.ctr],
                                  f, "error", render_error)
                  ELSE With([st EXCEPT !.ctr = generated.ctr,
                                       !.target_path[f] = generated.path],
                            LAMBDA rendered :
                                generate_associated(rendered, f,
                                    associated_files[f], folder_elements,
                                    filename_elements)),
                  LAMBDA after :
                      generate_loop(after, Tail(list), folder_elements,
                                    filename_elements)))

generate_target_paths(folder_elements, filename_elements) ==
    LET start == [status |-> status, error_message |-> error_message,
                  target_path |-> target_path, ctr |-> _counter]
    IN  \E end \in {generate_loop(start, file_info_list, folder_elements,
                                  filename_elements)} :
        /\ target_path' = end.target_path
        /\ status' = end.status
        /\ error_message' = end.error_message
        /\ _counter' = end.ctr
        /\ op' = [name |-> "generate_target_paths"]
        /\ success_count' = 0
        /\ progress_calls' = <<>>
        /\ copy_attempts' = <<>>
        /\ UNCHANGED <<file_info_list, associated_files, chainVars, recordVars>>

\* --------------------------------------------------- resolve_path_conflicts
\* The grouping loop without its tests for a missing target path.
RECURSIVE grouped_entries_unchecked(_)
grouped_entries_unchecked(list) ==
    IF list = <<>> THEN <<>>
    ELSE LET f == Head(list)
         IN  (<<f>> \o associated_files[f]) \o grouped_entries_unchecked(Tail(list))

\* Everything appended to path_groups, in order: each listed record that has
\* a target path, followed by those of its associated files that have one.
RECURSIVE grouped_entries(_)
grouped_entries(list) ==
    IF list = <<>> THEN <<>>
    ELSE LET f == Head(list)
             HasTarget(a) == target_path[a] # None
         IN  (IF target_path[f] = None THEN <<>>
              ELSE <<f>> \o SelectSeq(associated_files[f], HasTarget))
                \o grouped_entries(Tail(list))

\* path_groups[tp]
path_group(tp) ==
    LET SamePath(f) == target_path[f] = tp
    IN  SelectSeq(grouped_entries(file_info_list), SamePath)

\* sorted(info_list, key=last_modified, reverse=True)
newest_first(info_list) ==
    StableSort(info_list, [f \in Range(info_list) |-> last_modified(f)], TRUE)

\* The records the skip and overwrite policies set to skipped.
skip_losers(info_list) == Range(Tail(info_list))
overwrite_losers(info_list) == Range(Tail(newest_first(info_list)))

\* f"{base_path}_{i}{ext}"
renamed_path(tp, i) ==
    LET parts == splitext(tp) IN parts[1] \o <<"_">> \o str(i) \o parts[2]

\* The path the rename loop leaves on f: the last assignment wins.
rename_result(info_list, f) ==
    LET tail == Tail(info_list)
        hits == {i \in 1..Len(tail) : tail[i] = f}
    IN  IF hits = {} THEN target_path[f]
        ELSE renamed_path(target_path[f], CHOOSE i \in hits : \A j \in hits : j <= i)

DuplicateHandling == {"skip", "overwrite", "rename", "ask"}

resolve_path_conflicts(duplicate_handling) ==
    LET group(f) == path_group(target_path[f])
        conflicting(f) == Len(group(f)) > 1
        losers(f) ==
            IF duplicate_handling = "skip" THEN skip_losers(group(f))
            ELSE IF duplicate_handling = "overwrite" THEN overwrite_losers(group(f))
            ELSE {}
        message == IF duplicate_handling = "skip" THEN "Duplicate path"
                   ELSE "Older duplicate"
        new_path(f) ==
            IF duplicate_handling = "rename" /\ conflicting(f)
            THEN rename_result(group(f), f) ELSE target_path[f]
    IN  /\ \A f \in Files : Len(new_path(f)) <= MaxPathLen
        /\ status' = [f \in Files |->
              IF conflicting(f) /\ f \in losers(f) THEN "skipped" ELSE status[f]]
        /\ error_message' = [f \in Files |->
              IF conflicting(f) /\ f \in losers(f) THEN message ELSE error_message[f]]
        /\ target_path' = [f \in Files |-> new_path(f)]
        /\ op' = [name |-> "resolve_path_conflicts",
                  duplicate_handling |-> duplicate_handling]
        /\ success_count' = 0
        /\ progress_calls' = <<>>
        /\ copy_attempts' = <<>>
        /\ UNCHANGED <<file_info_list, associated_files, chainVars,
                       recordVars, _counter>>

\* --------------------------------------------------- copy_files
\* str(e) of the exception os.makedirs / shutil.copy2 raise.
io_error == "Permission denied"

\* copy_associated without the status test of the inner loop: a sidecar that
\* was already handled as a listed record is copied and counted again.
RECURSIVE copy_associated_unchecked(_, _, _, _)
copy_associated_unchecked(st, owner, assoc_files, unreadable) ==
    IF assoc_files = <<>> THEN st
    ELSE LET a == Head(assoc_files)
             rest == Tail(assoc_files)
             attempted == [st EXCEPT !.copy_attempts =
                              Append(@, [file |-> a, cascade_of |-> owner])]
         IN  IF target_path[a] = None
             THEN copy_associated_unchecked(st, owner, rest, unreadable)
             ELSE IF a \in unreadable
             THEN copy_associated_unchecked(
                      set_status(attempted, a, "error", io_error),
                      owner, rest, unreadable)
             ELSE copy_associated_unchecked(
                      [set_status(attempted, a, "copied", "")
                          EXCEPT !.success_count = @ + 1],
                      owner, rest, unreadable)

\* The inner loop over file_info.associated_files (own try/except per sidecar).
\* st carries status, error_message, success_count and the copy2 calls so far;
\* unreadable is the set of records whose copy raises.
RECURSIVE copy_associated(_, _, _, _)
copy_associated(st, owner, assoc_files, unreadable) ==
    IF assoc_files = <<>> THEN st
    ELSE LET a == Head(assoc_files)
             rest == Tail(assoc_files)
             attempted == [st EXCEPT !.copy_attempts =
                              Append(@, [file |-> a, cascade_of |-> owner])]
         IN  IF st.status[a] # "pending" \/ target_path[a] = None
             THEN copy_associated(st, owner, rest, unreadable)
             ELSE IF a \in unreadable
             THEN copy_associated(set_status(attempted, a, "error", io_error),
                                  owner, rest, unreadable)
             ELSE copy_associated(
                      [set_status(attempted, a, "copied", "")
                          EXCEPT !.success_count = @ + 1],
                      owner, rest, unreadable)

\* copy_one with the sidecars under the primary's try only: a sidecar's
\* exception reaches the outer handler, which marks the primary.
copy_one_shared_try(st, f, unreadable) ==
    LET attempted == [st EXCEPT !.copy_attempts =
                          Append(@, [file |-> f, cascade_of |-> None])]
    IN  IF f \in unreadable
        THEN set_status(attempted, f, "error", io_error)
        ELSE LET copied == [set_status(attempted, f, "copied", "")
                               EXCEPT !.success_count = @ + 1]
                 after == copy_associated(copied, f, associated_files[f], unreadable)
             IN  IF \E a \in Range(associated_files[f]) :
                        copied.status[a] = "pending" /\ after.status[a] = "error"
                 THEN set_status(after, f, "error", io_error)
                 ELSE after

\* One pass of the outer loop body for a record that is pending with a target.
copy_one(st, f, unreadable) ==
    LET attempted == [st EXCEPT !.copy_attempts =
                          Append(@, [file |-> f, cascade_of |-> None])]
    IN  IF f \in unreadable
        THEN set_status(attempted, f, "error", io_error)
        ELSE LET copied == [set_status(attempted, f, "copied", "")
                               EXCEPT !.success_count = @ + 1]
             IN  copy_associated(copied, f, associated_files[f], unreadable)

\* The outer loop over file_info_list.
RECURSIVE copy_loop(_, _, _, _)
copy_loop(st, list, total_files, unreadable) ==
    IF list = <<>> THEN st
    ELSE LET f == Head(list)
         IN  IF st.status[f] # "pending" \/ target_path[f] = None
             THEN copy_loop(st, Tail(list), total_files, unreadable)
             ELSE LET done == copy_one(st, f, unreadable)
                      processed == done.processed_files + 1
                  IN  copy_loop(
                          [done EXCEPT
                              !.processed_files = processed,
                              !.progress_calls =
                                  Append(@, <<processed, total_files,
                                              original_filename(f)>>)],
                          Tail(list), total_files, unreadable)

\* Records a copy_files call can reach while they are pending with a target.
Attemptable ==
    {f \in Range(file_info_list) :
        status[f] = "pending" /\ target_path[f] # None}

copy_files(unreadable) ==
    LET total_files ==
            Cardinality({k \in 1..Len(file_info_list) :
                /\ status[file_info_list[k]] = "pending"
                /\ target_path[file_info_list[k]] # None})
        start == [status |-> status, error_message |-> error_message,
                  success_count |-> 0, processed_files |-> 0,
                  progress_calls |-> <<>>, copy_attempts |-> <<>>]
    IN  \E end \in {copy_loop(start, file_info_list, total_files, unreadable)} :
        /\ status' = end.status
        /\ error_message' = end.error_message
        /\ success_count' = end.success_count
        /\ progress_calls' = end.progress_calls
        /\ copy_attempts' = end.copy_attempts
        /\ op' = [name |-> "copy_files", unreadable |-> unreadable]
        /\ UNCHANGED <<file_info_list, target_path, associated_files,
                       chainVars, recordVars, _counter>>

\* --------------------------------------------------- FilterChain
\* Filter configurations create_filter_chain builds instances from.
FilterIds == {"media_type", "screenshot", "date_range", "custom"}
Priorities == {10, 50, 100}
FilterInstances ==
    [filter_id : FilterIds, priority : Priorities, enabled : BOOLEAN]

\* add_filter that appends and never sorts.
add_filter_unsorted(filter_instance) ==
    /\ Len(registered) < MaxFilters
    /\ \A k \in 1..Len(registered) :
          registered[k].filter_id # filter_instance.filter_id
    /\ registered' = Append(registered, filter_instance)
    /\ filters' = IF filter_instance.enabled
                  THEN Append(filters, filter_instance) ELSE filters
    /\ op' = [name |-> "add_filter", filter_instance |-> filter_instance]
    /\ UNCHANGED <<pipelineVars, evalVars, recordVars, _counter>>

\* FilterChain.add_filter.  create_filter_chain passes one instance per
\* configuration key, so no filter_id is registered twice.
add_filter(filter_instance) ==
    /\ Len(registered) < MaxFilters
    /\ \A k \in 1..Len(registered) :
          registered[k].filter_id # filter_instance.filter_id
    /\ registered' = Append(registered, filter_instance)
    /\ filters' =
          IF filter_instance.enabled
          THEN LET appended == Append(filters, filter_instance)
               IN  StableSort(appended,
                              [x \in Range(appended) |-> x.priority], FALSE)
          ELSE filters
    /\ op' = [name |-> "add_filter", filter_instance |-> filter_instance]
    /\ UNCHANGED <<pipelineVars, evalVars, recordVars, _counter>>

\* =================================================== filters
\* ------------------------------------------------------------ dates
\* Calendar days are 1..MaxDay.
MaxDay == 3

\* datetime: a calendar day and a time of day, 0 being midnight.
Datetimes == [day : 1..MaxDay, time : {0, 1}]

\* a < b on datetime.
datetime_lt(a, b) == a.day < b.day \/ (a.day = b.day /\ a.time < b.time)

\* Date strings by the strptime format they are written in; a string in a
\* date-only format carries no time of day.
DateOnlyFormats == {"%Y-%m-%d", "%Y/%m/%d"}
DateTimeFormats == {"%Y-%m-%d %H:%M:%S", "%Y:%m:%d %H:%M:%S"}
MalformedDate == [format |-> "not a date", day |-> 0, time |-> 0]

date_string(format, day, time) == [format |-> format, day |-> day, time |-> time]

\* datetime.strptime(date_str, fmt): the fields not in the format default to
\* midnight; a string in another format raises ValueError.
strptime(date_str, fmt) ==
    IF date_str.format = fmt /\ fmt \in DateOnlyFormats \cup DateTimeFormats
    THEN [raised |-> FALSE,
          value |-> [day |-> date_str.day,
                     time |-> IF fmt \in DateOnlyFormats THEN 0 ELSE date_str.time]]
    ELSE [raised |-> TRUE, value |-> NoDatetime]

\* DateRangeFilter._parse_date
_parse_date(date_str) ==
    LET formats == <<"%Y-%m-%d", "%Y/%m/%d",
                     "%Y-%m-%d %H:%M:%S", "%Y:%m:%d %H:%M:%S">>
        parsed == {k \in 1..Len(formats) : ~strptime(date_str, formats[k]).raised}
    IN  IF date_str = NoString THEN [raised |-> FALSE, value |-> NoDatetime]
        ELSE IF parsed # {}
        THEN strptime(date_str, formats[CHOOSE k \in parsed :
                                           \A j \in parsed : k <= j])
        ELSE [raised |-> TRUE, value |-> NoDatetime]

\* strftime('%Y-%m-%d')
strftime_date(d) == d.day

\* ------------------------------------------------------------ records to filter
PhotoPath == <<"d", "/", "a", ".", "j", "p", "g">>
ScreenshotPath == <<"d", "/", "I", "M", "G", "_", "0", "0", "0", "1", ".", "P", "N", "G">>
VideoPath == <<"d", "/", "v", ".", "m", "p", "4">>
RawPath == <<"d", "/", "r", ".", "a", "r", "w">>
PicturesPath == <<"/", "p", "i", "c", "t", "u", "r", "e", "s", "/", "b", ".", "p", "n", "g">>
PngPath == <<"d", "/", "c", ".", "p", "n", "g">>

ScreenshotSoftware == <<"S", "c", "r", "e", "e", "n", "s", "h", "o", "t">>

\* FileInfo._guess_media_type
video_extensions ==
    {<<"m", "p", "4">>, <<"m", "o", "v">>, <<"a", "v", "i">>,
     <<"w", "m", "v">>, <<"m", "4", "v">>, <<"m", "t", "s">>,
     <<"m", "2", "t", "s">>}

image_extensions ==
    {<<"j", "p", "g">>, <<"j", "p", "e", "g">>, <<"p", "n", "g">>,
     <<"g", "i", "f">>, <<"t", "i", "f", "f">>, <<"t", "i", "f">>,
     <<"b", "m", "p">>, <<"h", "e", "i", "c">>, <<"h", "e", "i", "f">>}

audio_extensions ==
    {<<"m", "p", "3">>, <<"w", "a", "v">>, <<"a", "a", "c">>,
     <<"f", "l", "a", "c">>, <<"m", "4", "a">>}

raw_extensions ==
    {<<"a", "r", "w">>, <<"r", "a", "w">>, <<"c", "r", "2">>,
     <<"c", "r", "3">>, <<"n", "e", "f">>, <<"o", "r", "f">>,
     <<"r", "w", "2">>, <<"d", "n", "g">>}

_guess_media_type(f) ==
    LET ext == lower(original_extension(f))
    IN  IF ext \in video_extensions THEN "video"
        ELSE IF ext \in image_extensions THEN "image"
        ELSE IF ext \in audio_extensions THEN "audio"
        ELSE IF ext \in raw_extensions THEN "raw"
        ELSE "unknown"

media_type(file_info) == _guess_media_type(file_info.original_path)

\* String literals of the screenshot heuristics.
screenshot_word == <<"s", "c", "r", "e", "e", "n", "s", "h", "o", "t">>
pictures_screenshots_dir ==
    <<"/", "p", "i", "c", "t", "u", "r", "e", "s", "/", "s",
      "c", "r", "e", "e", "n", "s", "h", "o", "t", "s", "/">>
dcim_screenshots_dir ==
    <<"/", "d", "c", "i", "m", "/", "s", "c", "r",
      "e", "e", "n", "s", "h", "o", "t", "s", "/">>
pictures_dir == <<"/", "p", "i", "c", "t", "u", "r", "e", "s", "/">>
screenshot_dir ==
    <<"/", "s", "c", "r", "e", "e",
      "n", "s", "h", "o", "t", "/">>
dcim_dir == <<"/", "d", "c", "i", "m", "/">>

\* FileInfo._is_screenshot_by_filename.  Of all_patterns, the two written in
\* katakana match no name over the ASCII alphabet of the model, and the dated
\* Android pattern matches only names that ^screenshot.*\.png$ matches too.
_is_screenshot_by_filename(file_info) ==
    LET filename == lower(original_filename(file_info.original_path))
    IN  \/ /\ Len(filename) = 12
           /\ StartsWith(filename, <<"i", "m", "g", "_">>)
           /\ \A k \in 5..8 : filename[k] \in Digits
           /\ EndsWith(filename, <<".", "p", "n", "g">>)
        \/ /\ StartsWith(filename, screenshot_word)
           /\ Len(filename) >= 14
           /\ EndsWith(filename, <<".", "p", "n", "g">>)

\* FileInfo._is_screenshot_by_path
_is_screenshot_by_path(file_info) ==
    LET path_lower ==
            [k \in 1..Len(file_info.original_path) |->
                IF file_info.original_path[k] = "\\" THEN "/"
                ELSE LowerChar(file_info.original_path[k])]
        screenshot_paths ==
            {pictures_screenshots_dir, pictures_dir, dcim_screenshots_dir,
             screenshot_dir}
    IN  \/ /\ Contains(path_lower, pictures_dir)
           /\ ~Contains(path_lower, dcim_dir)
           /\ lower(original_extension(file_info.original_path)) = <<"p", "n", "g">>
        \/ \E screenshot_path \in screenshot_paths :
              Contains(path_lower, screenshot_path)

\* Screen resolutions, as (width, height).
ios_resolutions ==
    {<<1125, 2436>>, <<1242, 2688>>, <<828, 1792>>, <<750, 1334>>,
     <<1242, 2208>>, <<640, 1136>>, <<640, 960>>, <<320, 480>>,
     <<1668, 2388>>, <<2048, 2732>>, <<1536, 2048>>}

android_resolutions ==
    {<<1080, 1920>>, <<1440, 2560>>, <<1080, 2340>>,
     <<720, 1280>>, <<1080, 2160>>, <<1440, 3120>>}

\* The loop over a resolution table: either orientation matches.
resolution_in(width, height, table) ==
    \E r \in table :
        (width = r[1] /\ height = r[2]) \/ (width = r[2] /\ height = r[1])

\* FileInfo._is_ios_screenshot_by_metadata
_is_ios_screenshot_by_metadata(file_info) ==
    /\ file_info.metadata.width # 0
    /\ file_info.metadata.height # 0
    /\ resolution_in(file_info.metadata.width, file_info.metadata.height,
                     ios_resolutions)
    /\ lower(original_extension(file_info.original_path)) = <<"p", "n", "g">>

\* FileInfo._is_screenshot_by_metadata
_is_screenshot_by_metadata(file_info) ==
    IF file_info.metadata = NoMetadata THEN FALSE
    ELSE IF Contains(lower(file_info.metadata.image_description), screenshot_word)
    THEN TRUE
    ELSE IF Contains(lower(file_info.metadata.software), screenshot_word)
    THEN TRUE
    ELSE IF file_info.source_device = "iOS"
    THEN _is_ios_screenshot_by_metadata(file_info)
    ELSE FALSE

\* ------------------------------------------------------------ FilterResult
\* FilterResult(include, reason, metadata); raised marks a check_file that
\* ended in an exception instead of returning.
NoReason == <<>>
EmptyDict == <<>>

FilterResult(include, reason, result_metadata) ==
    [raised |-> FALSE, include |-> include, reason |-> reason,
     metadata |-> result_metadata]

Raised == [raised |-> TRUE, include |-> FALSE, reason |-> NoReason,
           metadata |-> EmptyDict]

\* ------------------------------------------------------------ MediaTypeFilter
MediaTypeFilter_check_file(config, file_info) ==
    IF config.exclude_types # {} /\ media_type(file_info) \in config.exclude_types
    THEN FilterResult(FALSE,
                      <<"Excluded media type:", media_type(file_info)>>,
                      [excluded_type |-> media_type(file_info)])
    ELSE IF config.include_types # {}
            /\ media_type(file_info) \notin config.include_types
    THEN FilterResult(FALSE,
                      <<"Not in included media types:", media_type(file_info)>>,
                      [media_type |-> media_type(file_info),
                       allowed_types |-> config.include_types])
    ELSE FilterResult(TRUE, NoReason, [media_type |-> media_type(file_info)])

\* ------------------------------------------------------------ ScreenshotFilter
\* re.match(pattern, string) for patterns made of literal characters and "[":
\* a "[" that no "]" closes does not compile (re.error); a pattern of literal
\* characters matches the strings that start with it.
re_error(pattern) ==
    \E k \in 1..Len(pattern) :
        pattern[k] = "[" /\ \A j \in (k + 1)..Len(pattern) : pattern[j] # "]"

re_match(pattern, string) == StartsWith(string, pattern)

\* The loop over custom_patterns: "raised", "matched" or "none".
RECURSIVE custom_pattern_loop(_, _)
custom_pattern_loop(patterns, file_info) ==
    IF patterns = <<>> THEN "none"
    ELSE IF re_error(lower(Head(patterns))) THEN "raised"
    ELSE IF re_match(lower(Head(patterns)),
                     lower(original_filename(file_info.original_path)))
    THEN "matched"
    ELSE custom_pattern_loop(Tail(patterns), file_info)

\* ScreenshotFilter._detect_by_resolution
_detect_by_resolution(config, file_info) ==
    LET width == file_info.metadata.width
        height == file_info.metadata.height
        check_resolutions ==
            IF config.device_type = "iOS" THEN ios_resolutions
            ELSE IF config.device_type = "Android" THEN android_resolutions
            ELSE ios_resolutions \cup android_resolutions
    IN  IF width = 0 \/ height = 0 THEN FALSE
        ELSE IF lower(original_extension(file_info.original_path)) # <<"p", "n", "g">>
        THEN FALSE
        ELSE resolution_in(width, height, check_resolutions)

\* _detect_screenshot that consults the metadata before the file name.
_detect_screenshot_metadata_first(config, file_info) ==
    LET custom == custom_pattern_loop(config.custom_patterns, file_info)
        detected(method) ==
            [raised |-> FALSE, is_screenshot |-> TRUE, detection_method |-> method]
    IN  IF custom = "raised"
        THEN [raised |-> TRUE, is_screenshot |-> FALSE, detection_method |-> "none"]
        ELSE IF custom = "matched" THEN detected("custom_pattern")
        ELSE IF config.enable_metadata_pattern
                /\ _is_screenshot_by_metadata(file_info)
        THEN detected("metadata_pattern")
        ELSE IF config.enable_filename_pattern
                /\ _is_screenshot_by_filename(file_info)
        THEN detected("filename_pattern")
        ELSE IF config.enable_path_pattern /\ _is_screenshot_by_path(file_info)
        THEN detected("path_pattern")
        ELSE IF config.enable_resolution_detection
                /\ _detect_by_resolution(config, file_info)
        THEN detected("resolution_pattern")
        ELSE [raised |-> FALSE, is_screenshot |-> FALSE,
              detection_method |-> "none"]

\* ScreenshotFilter._detect_screenshot
_detect_screenshot(config, file_info) ==
    LET custom == custom_pattern_loop(config.custom_patterns, file_info)
        detected(method) ==
            [raised |-> FALSE, is_screenshot |-> TRUE, detection_method |-> method]
    IN  IF custom = "raised"
        THEN [raised |-> TRUE, is_screenshot |-> FALSE, detection_method |-> "none"]
        ELSE IF custom = "matched" THEN detected("custom_pattern")
        ELSE IF config.enable_filename_pattern
                /\ _is_screenshot_by_filename(file_info)
        THEN detected("filename_pattern")
        ELSE IF config.enable_path_pattern /\ _is_screenshot_by_path(file_info)
        THEN detected("path_pattern")
        ELSE IF config.enable_metadata_pattern
                /\ _is_screenshot_by_metadata(file_info)
        THEN detected("metadata_pattern")
        ELSE IF config.enable_resolution_detection
                /\ _detect_by_resolution(config, file_info)
        THEN detected("resolution_pattern")
        ELSE [raised |-> FALSE, is_screenshot |-> FALSE,
              detection_method |-> "none"]

\* ScreenshotFilter.check_file; a re.error of _detect_screenshot is not caught.
ScreenshotFilter_check_file(config, file_info) ==
    LET detection == _detect_screenshot(config, file_info)
    IN  IF ~config.exclude_screenshots
        THEN FilterResult(TRUE, NoReason, EmptyDict)
        ELSE IF media_type(file_info) # "image"
        THEN FilterResult(TRUE, NoReason, [is_screenshot |-> FALSE])
        ELSE IF detection.raised THEN Raised
        ELSE IF detection.is_screenshot
        THEN FilterResult(FALSE,
                          <<"Screenshot detected by", detection.detection_method>>,
                          [is_screenshot |-> TRUE,
                           detection_method |-> detection.detection_method,
                           device_type |-> config.device_type])
        ELSE FilterResult(TRUE, NoReason, [is_screenshot |-> FALSE])

\* ------------------------------------------------------------ DateRangeFilter
\* dict.get(key): None when the key is absent.
metadata_get(file_info, key) ==
    IF key \in DOMAIN file_info.metadata THEN file_info.metadata[key]
    ELSE NoString

\* DateRangeFilter._extract_metadata_date
_extract_metadata_date(config, file_info) ==
    LET parses(date_str) ==
            date_str # NoString /\ ~_parse_date(date_str).raised
        NotDateField(field) == field # config.date_field
        fallback_fields ==
            SelectSeq(<<"datetime", "dateTimeOriginal", "dateTimeDigitized">>,
                      NotDateField)
        hits == {k \in 1..Len(fallback_fields) :
                    parses(metadata_get(file_info, fallback_fields[k]))}
    IN  IF parses(metadata_get(file_info, config.date_field))
        THEN _parse_date(metadata_get(file_info, config.date_field)).value
        ELSE IF hits # {}
        THEN _parse_date(metadata_get(file_info,
                 fallback_fields[CHOOSE k \in hits : \A j \in hits : k <= j])).value
        ELSE NoDatetime

\* DateRangeFilter._get_file_date
_get_file_date(config, file_info) ==
    IF /\ config.use_metadata_date
       /\ file_info.metadata # NoMetadata
       /\ _extract_metadata_date(config, file_info) # NoDatetime
    THEN _extract_metadata_date(config, file_info)
    ELSE IF config.use_file_modified_date THEN file_info.last_modified
    ELSE NoDatetime

\* DateRangeFilter._get_date_source
_get_date_source(config) ==
    IF config.use_metadata_date THEN <<"metadata", config.date_field>>
    ELSE IF config.use_file_modified_date THEN <<"file_modified">>
    ELSE <<"unknown">>

\* A check_file that excludes the records whose date is unknown.
DateRangeFilter_check_file_unknown_excluded(config, file_info) ==
    LET start_date == _parse_date(config.startDate).value
        end_date == _parse_date(config.endDate).value
        file_date == _get_file_date(config, file_info)
        before == start_date # NoDatetime /\ datetime_lt(file_date, start_date)
        after == end_date # NoDatetime /\ datetime_lt(end_date, file_date)
    IN  FilterResult(
            file_date # NoDatetime /\ ~before /\ ~after,
            IF file_date = NoDatetime THEN <<"File date unknown">>
            ELSE IF after
            THEN <<"File date", strftime_date(file_date),
                   "is after end date", strftime_date(end_date)>>
            ELSE IF before
            THEN <<"File date", strftime_date(file_date),
                   "is before start date", strftime_date(start_date)>>
            ELSE NoReason,
            [file_date |-> file_date,
             date_source |-> _get_date_source(config),
             start_date |-> start_date,
             end_date |-> end_date])

\* DateRangeFilter.check_file; start_date and end_date are the bounds
\* __init__ parsed from the configuration.
DateRangeFilter_check_file(config, file_info) ==
    LET start_date == _parse_date(config.startDate).value
        end_date == _parse_date(config.endDate).value
        file_date == _get_file_date(config, file_info)
        before == start_date # NoDatetime /\ datetime_lt(file_date, start_date)
        after == end_date # NoDatetime /\ datetime_lt(end_date, file_date)
    IN  IF file_date = NoDatetime
        THEN FilterResult(TRUE, NoReason,
                          [file_date |-> NoDatetime, date_source |-> <<"unknown">>])
        ELSE FilterResult(
                ~before /\ ~after,
                IF after
                THEN <<"File date", strftime_date(file_date),
                       "is after end date", strftime_date(end_date)>>
                ELSE IF before
                THEN <<"File date", strftime_date(file_date),
                       "is before start date", strftime_date(start_date)>>
                ELSE NoReason,
                [file_date |-> file_date,
                 date_source |-> _get_date_source(config),
                 start_date |-> start_date,
                 end_date |-> end_date])

\* The check_file of the filter registered under filter_id.
check_file(filter_id, config, file_info) ==
    IF filter_id = "media_type"
    THEN MediaTypeFilter_check_file(config.media_type, file_info)
    ELSE IF filter_id = "screenshot"
    THEN ScreenshotFilter_check_file(config.screenshot, file_info)
    ELSE DateRangeFilter_check_file(config.date_range, file_info)

\* ------------------------------------------------------------ inputs
\* EXIF date strings the extractor stores, the unreadable one included.
ExifDates ==
    {date_string("%Y:%m:%d %H:%M:%S", d, t) : d \in 1..MaxDay, t \in {0, 1}}

\* Pictures with every combination of date metadata and modification time.
DatedRecords ==
    {[original_path |-> PhotoPath, source_device |-> "",
      metadata |-> [NoMetadata EXCEPT !.datetime = a, !.dateTimeOriginal = b],
      last_modified |-> m] :
        a \in ExifDates \cup {NoString, MalformedDate},
        b \in {NoString, MalformedDate, date_string("%Y:%m:%d %H:%M:%S", 1, 1)},
        m \in {d \in Datetimes : d.time = 1}}

\* Files of every kind with every combination of screenshot signals.
SignalRecords ==
    {[original_path |-> path, source_device |-> device,
      metadata |-> [NoMetadata EXCEPT !.software = software,
                                      !.width = size[1], !.height = size[2]],
      last_modified |-> [day |-> 1, time |-> 1]] :
        path \in {PhotoPath, ScreenshotPath, VideoPath, RawPath, PicturesPath,
                  PngPath},
        device \in {"", "iOS"},
        software \in {<<>>, ScreenshotSoftware},
        size \in {<<0, 0>>, <<750, 1334>>, <<1920, 1080>>}}

FileInfos == DatedRecords \cup SignalRecords

\* The records a scan offers to a chain.
ScannedRecords ==
    {r \in FileInfos :
        /\ r.source_device = ""
        /\ r.metadata.width = 0
        /\ r.metadata.dateTimeOriginal = NoString
        /\ r.last_modified = [day |-> 1, time |-> 1]}

\* Configured bounds of a date range: none, a calendar day, a day with a time.
DateBounds ==
    {NoString}
        \cup {date_string("%Y-%m-%d", d, 0) : d \in 1..MaxDay}
        \cup {date_string("%Y-%m-%d %H:%M:%S", d, 1) : d \in 1..MaxDay}

MediaTypeConfigs ==
    [include_types : {{}, {"image", "video"}, {"raw"}},
     exclude_types : {{}, {"raw"}, {"image"}}]

CustomPatternLists == {<<>>, << <<"I", "M", "G">> >>, << <<"[">> >>}

ScreenshotConfigs ==
    {DefaultScreenshot, [DefaultScreenshot EXCEPT !.exclude_screenshots = FALSE]}
        \cup [exclude_screenshots : {TRUE}, enable_filename_pattern : BOOLEAN,
              enable_path_pattern : BOOLEAN, enable_metadata_pattern : BOOLEAN,
              enable_resolution_detection : BOOLEAN,
              custom_patterns : CustomPatternLists,
              device_type : {"auto", "iOS", "Android"}]

DateRangeConfigs ==
    [startDate : DateBounds, endDate : DateBounds,
     use_metadata_date : BOOLEAN, use_file_modified_date : BOOLEAN,
     date_field : {"datetime", "dateTimeOriginal"}]

\* One constructed filter: its chain entry and the configuration it has.
ConstructedFilters ==
    {[filter_id |-> "media_type", config |-> [DefaultConfig EXCEPT !.media_type = c]] :
        c \in MediaTypeConfigs}
    \cup
    {[filter_id |-> "screenshot", config |-> [DefaultConfig EXCEPT !.screenshot = c]] :
        c \in ScreenshotConfigs}
    \cup
    {[filter_id |-> "date_range", config |-> [DefaultConfig EXCEPT !.date_range = c]] :
        c \in DateRangeConfigs}

\* The configuration of the integration test, and the same with a custom
\* pattern that does not compile.
TestConfig ==
    [media_type |-> [include_types |-> {"image", "video"}, exclude_types |-> {}],
     screenshot |-> [DefaultScreenshot EXCEPT !.device_type = "iOS"],
     date_range |-> [DefaultDateRange EXCEPT
                        !.startDate = date_string("%Y-%m-%d", 2, 0),
                        !.endDate = date_string("%Y-%m-%d", MaxDay, 0)]]

ChainConfigs ==
    {TestConfig, [TestConfig EXCEPT !.screenshot.custom_patterns = << <<"[">> >>]}

\* filters_config of create_filter_chain: the three filters in configuration
\* order, each with its priority and enabled flag.
ChainRegistrations ==
    {<<[filter_id |-> "media_type", priority |-> p[1], enabled |-> e[1]],
       [filter_id |-> "screenshot", priority |-> p[2], enabled |-> e[2]],
       [filter_id |-> "date_range", priority |-> p[3], enabled |-> e[3]]>> :
        p \in [1..3 -> {10, 50}], e \in [1..3 -> BOOLEAN]}

\* ------------------------------------------------------------ evaluation
\* FilterRegistry.create_filter_chain: add_filter for every configured filter.
RECURSIVE create_filter_chain(_)
create_filter_chain(filters_config) ==
    IF filters_config = <<>> THEN <<>>
    ELSE LET chain == create_filter_chain(
                          SubSeq(filters_config, 1, Len(filters_config) - 1))
             filter_instance == filters_config[Len(filters_config)]
             appended == Append(chain, filter_instance)
         IN  IF filter_instance.enabled
             THEN StableSort(appended,
                             [x \in Range(appended) |-> x.priority], FALSE)
             ELSE chain

\* add_file that files every exclusion under the one key "excluded".
add_file_unkeyed(st, included, filter_id) ==
    [st EXCEPT
        !.total_files = @ + 1,
        !.included_files = IF included THEN @ + 1 ELSE @,
        !.excluded_files = IF included THEN @ ELSE @ + 1,
        !.exclusion_by_filter =
            IF included \/ filter_id = "" THEN @
            ELSE ("excluded" :>
                     (IF "excluded" \in DOMAIN @ THEN @["excluded"] ELSE 0) + 1)
                 @@ @]

\* FilterStats.add_file
add_file(st, included, filter_id) ==
    [st EXCEPT
        !.total_files = @ + 1,
        !.included_files = IF included THEN @ + 1 ELSE @,
        !.excluded_files = IF included THEN @ ELSE @ + 1,
        !.exclusion_by_filter =
            IF included \/ filter_id = "" THEN @
            ELSE (filter_id :>
                     (IF filter_id \in DOMAIN @ THEN @[filter_id] ELSE 0) + 1)
                 @@ @]

\* The loop without the return at the first rejection: every filter runs and
\* the first rejection is reported at the end.
RECURSIVE filter_loop_exhaustive(_, _, _, _, _)
filter_loop_exhaustive(chain, config, file_info, ran, filter_metadata) ==
    IF chain = <<>>
    THEN [raised |-> FALSE, include |-> TRUE, reason |-> NoReason,
          filter_metadata |-> filter_metadata, ran |-> ran, rejected_by |-> ""]
    ELSE LET filter_id == Head(chain).filter_id
             result == check_file(filter_id, config, file_info)
             merged == (filter_id :> result.metadata) @@ filter_metadata
             rest == filter_loop_exhaustive(Tail(chain), config, file_info,
                                            Append(ran, filter_id), merged)
         IN  IF result.raised
             THEN [raised |-> TRUE, include |-> FALSE, reason |-> NoReason,
                   filter_metadata |-> filter_metadata,
                   ran |-> Append(ran, filter_id), rejected_by |-> ""]
             ELSE IF ~result.include /\ ~rest.raised
             THEN [rest EXCEPT !.include = FALSE, !.reason = result.reason,
                               !.rejected_by = filter_id]
             ELSE rest

\* The loop of should_include_file over the filters not yet run: ran lists
\* the filters whose check_file was called, filter_metadata is the dictionary
\* built so far.
RECURSIVE filter_loop(_, _, _, _, _)
filter_loop(chain, config, file_info, ran, filter_metadata) ==
    IF chain = <<>>
    THEN [raised |-> FALSE, include |-> TRUE, reason |-> NoReason,
          filter_metadata |-> filter_metadata, ran |-> ran, rejected_by |-> ""]
    ELSE LET filter_id == Head(chain).filter_id
             result == check_file(filter_id, config, file_info)
             merged == (filter_id :> result.metadata) @@ filter_metadata
         IN  IF result.raised
             THEN [raised |-> TRUE, include |-> FALSE, reason |-> NoReason,
                   filter_metadata |-> filter_metadata,
                   ran |-> Append(ran, filter_id), rejected_by |-> ""]
             ELSE IF ~result.include
             THEN [raised |-> FALSE, include |-> FALSE, reason |-> result.reason,
                   filter_metadata |-> merged,
                   ran |-> Append(ran, filter_id), rejected_by |-> filter_id]
             ELSE filter_loop(Tail(chain), config, file_info,
                              Append(ran, filter_id), merged)

\* FilterChain.should_include_file.  An exception of a check_file leaves the
\* method before any statistics are recorded.
should_include_file(file_info) ==
    LET outcome == filter_loop(filters, filter_config, file_info, <<>>, <<>>)
    IN  /\ stats.total_files < MaxEvaluations
        /\ stats' = IF outcome.raised THEN stats
                    ELSE add_file(stats, outcome.include, outcome.rejected_by)
        /\ op' = [name |-> "should_include_file", file_info |-> file_info,
                  outcome |-> outcome]
        /\ UNCHANGED <<pipelineVars, filters, registered, filter_config,
                       recordVars, _counter>>

\* A direct call of the check_file of the one constructed filter.  check_file
\* reads the filter and the record and writes neither, so the first call on
\* a filter stands for every call on it.
call_check_file(file_info) ==
    /\ op.name = "create_filter"
    /\ Len(filters) = 1
    /\ op' = [name |-> "check_file", file_info |-> file_info,
              result |-> check_file(filters[1].filter_id, filter_config,
                                    file_info)]
    /\ UNCHANGED <<pipelineVars, chainVars, recordVars, _counter>>

\* --------------------------------------------------- check_duplicates
\* What open(original_path, "rb") reads from each source file.
content ==
    (<<"p", "/", "a", ".", "j">> :> "1") @@
    (<<"p", "/", "a", ".", "x">> :> "2") @@
    (<<"q", "/", "a", ".", "X">> :> "2") @@
    (<<"p", "/", "a", "_", "1", ".", "x">> :> "3") @@
    (<<"p", "/", "a", ".", "r">> :> "1") @@
    (<<"p", "/", "a", ".", "e">> :> "2") @@
    (<<"p", "/", "b">> :> "3")

\* hash_func.hexdigest(): equal exactly for equal contents.
hexdigest(data) == <<"h", data>>

\* FileInfo.calculate_hash: the stored hash if there is one, else the digest
\* of the content, stored; open raises for an unreadable file.
calculate_hash(stored, f, unreadable) ==
    IF stored[f] # None
    THEN [raised |-> FALSE, file_hash |-> stored[f], stored |-> stored]
    ELSE IF f \in unreadable
    THEN [raised |-> TRUE, file_hash |-> None, stored |-> stored]
    ELSE [raised |-> FALSE, file_hash |-> hexdigest(content[f]),
          stored |-> [stored EXCEPT ![f] = hexdigest(content[f])]]

\* The loop over file_info_list; st carries the stored hashes and hash_groups.
RECURSIVE hash_loop(_, _, _)
hash_loop(st, list, unreadable) ==
    IF list = <<>> THEN st
    ELSE LET f == Head(list)
             calculated == calculate_hash(st.stored, f, unreadable)
             file_hash == calculated.file_hash
         IN  IF target_path[f] = None \/ calculated.raised
             THEN hash_loop(st, Tail(list), unreadable)
             ELSE hash_loop(
                      [stored |-> calculated.stored,
                       hash_groups |->
                          IF file_hash \in DOMAIN st.hash_groups
                          THEN [st.hash_groups EXCEPT ![file_hash] = Append(@, f)]
                          ELSE st.hash_groups @@ (file_hash :> <<f>>)],
                      Tail(list), unreadable)

\* The returned dictionary with every group kept.
duplicated_groups_all(hash_groups) ==
    [h \in DOMAIN hash_groups |-> hash_groups[h]]

\* The returned dictionary: the groups with more than one member.
duplicated_groups(hash_groups) ==
    [h \in {g \in DOMAIN hash_groups : Len(hash_groups[g]) > 1} |-> hash_groups[h]]

check_duplicates(unreadable) ==
    \E end \in {hash_loop([stored |-> hash, hash_groups |-> <<>>],
                          file_info_list, unreadable)} :
        /\ hash' = end.stored
        /\ op' = [name |-> "check_duplicates", unreadable |-> unreadable,
                  duplicates |-> duplicated_groups(end.hash_groups)]
        /\ success_count' = 0
        /\ progress_calls' = <<>>
        /\ copy_attempts' = <<>>
        /\ UNCHANGED <<file_info_list, status, error_message, target_path,
                       associated_files, chainVars, metadata,
                       _is_screenshot_cache, cancel_requested, _counter>>

\* --------------------------------------------------- cli_app.copy_process
\* folderStructure and fileNamePattern settings, the second folder structure
\* with a number where a string is expected.
CliFolderPatterns == {<<>>, <<NumberLiteral(2024)>>}
CliFilenamePatterns ==
    {<<OriginalFilenameElement>>, <<LiteralElement(<<"a">>)>>,
     <<MetadataElement("year"), OriginalFilenameElement>>}

\* Sets of at most one record.
AtMostOne(S) == {{}} \cup {{f} : f \in S}

\* The stages in the order copy_process calls them.
copy_process ==
    \/ find_associated_files
    \/ /\ op.name = "find_associated_files"
       /\ \E fo \in CliFolderPatterns, fi \in CliFilenamePatterns :
             generate_target_paths(fo, fi)
    \/ /\ op.name = "generate_target_paths"
       /\ \E d \in DuplicateHandling : resolve_path_conflicts(d)
    \/ /\ op.name = "resolve_path_conflicts"
       /\ \E unreadable \in AtMostOne(Range(file_info_list)) :
             check_duplicates(unreadable)
    \/ /\ op.name = "check_duplicates"
       /\ \E unreadable \in SUBSET Attemptable : copy_files(unreadable)

\* --------------------------------------------------- scanning
\* The body of the try in scan_directory without a filter: entries in the
\* order os.walk / os.listdir yields them; FileInfo(file_path) raises for an
\* entry os.stat cannot reach, and the except clause around the whole loop
\* ends it.  os.path.isfile of the non-recursive branch is False for such an
\* entry, which is then passed over.
RECURSIVE scan_loop(_, _, _, _)
scan_loop(found, entries, inaccessible, recursive) ==
    IF entries = <<>> THEN [raised |-> FALSE, found |-> found]
    ELSE IF Head(entries) \in inaccessible
    THEN IF recursive THEN [raised |-> TRUE, found |-> found]
         ELSE scan_loop(found, Tail(entries), inaccessible, recursive)
    ELSE scan_loop(Append(found, Head(entries)), Tail(entries), inaccessible,
                   recursive)

\* FileOperations.scan_directory(source_dir, recursive): the list built so
\* far is returned after the except clause.
scan_directory(entries, inaccessible, recursive) ==
    /\ op.name = "FileOperations"
    /\ file_info_list' = scan_loop(<<>>, entries, inaccessible, recursive).found
    /\ op' = [name |-> "scan_directory", entries |-> entries,
              inaccessible |-> inaccessible, recursive |-> recursive]
    /\ UNCHANGED <<status, error_message, target_path, associated_files,
                   success_count, progress_calls, copy_attempts, chainVars,
                   recordVars, _counter>>

\* FileOperations.scan_directory_with_filter_chain(source_dir, recursive)
\* without a chain and without extraction: the except clause returns [].
scan_directory_with_filter_chain(entries, inaccessible, recursive) ==
    LET scanned == scan_loop(<<>>, entries, inaccessible, recursive)
    IN  /\ op.name = "FileOperations"
        /\ file_info_list' = IF scanned.raised THEN <<>> ELSE scanned.found
        /\ op' = [name |-> "scan_directory_with_filter_chain",
                  entries |-> entries, inaccessible |-> inaccessible,
                  recursive |-> recursive]
        /\ UNCHANGED <<status, error_message, target_path, associated_files,
                       success_count, progress_calls, copy_attempts, chainVars,
                       recordVars, _counter>>

\* --------------------------------------------------- main_window
\* The elements _preview_operation builds: the folder literal (two kanji,
\* written here with two ASCII letters), the year and the month, and the
\* original file name.
GuiFolderElements ==
    <<LiteralElement(<<"P", "h">>), MetadataElement("year"),
      MetadataElement("month")>>
GuiFilenameElements == <<OriginalFilenameElement>>

\* MainWindow._preview_operation on the scanned selected_files.
_preview_operation ==
    generate_target_paths(GuiFolderElements, GuiFilenameElements)

\* MainWindow._start_copy_operation, once the question is answered with Yes.
_start_copy_operation(unreadable) == copy_files(unreadable)

\* The user asks to abort the run; the window handles such events whenever
\* the progress callback runs QApplication.processEvents().
request_cancel ==
    /\ ~cancel_requested
    /\ cancel_requested' = TRUE
    /\ op' = [name |-> "request_cancel"]
    /\ UNCHANGED <<pipelineVars, chainVars, metadata, hash,
                   _is_screenshot_cache, _counter>>

\* --------------------------------------------------- PathGenerator calls
\* Elements of every kind that renders a string or a number.
RenderElements ==
    {LiteralElement(<<>>), LiteralElement(<<"a">>),
     LiteralElement(<<"a", "/", "b">>), LiteralElement(<<".", "j">>),
     NumberLiteral(0), NumberLiteral(2024), OriginalFilenameElement,
     MetadataElement("datetime"), MetadataElement("software"),
     MetadataElement("year")}

\* Element lists of up to two elements.
RenderPatterns == {<<>>} \cup UNION {[1..k -> RenderElements] : k \in 1..2}

\* Metadata an extraction can have left on the records.
RenderMetadata ==
    {NoMetadata,
     [NoMetadata EXCEPT !.datetime = date_string("%Y:%m:%d %H:%M:%S", 1, 1),
                        !.software = <<" ", "a", "/", "b">>],
     [NoMetadata EXCEPT !.datetime = date_string("%Y/%m/%d", 2, 0),
                        !.software = <<"c", "\\", "d">>]}

\* A direct call of generate_filename.  Without SequenceElement instances in
\* the list the call reads the record and writes nothing, so the first call
\* stands for every call.
call_generate_filename(f, filename_elements) ==
    LET result == generate_filename(f, filename_elements, _counter)
    IN  /\ op.name = "PathGenerator"
        /\ op' = [name |-> "generate_filename", file_info |-> f,
                  elements |-> filename_elements, result |-> result]
        /\ _counter' = result.ctr
        /\ UNCHANGED <<pipelineVars, chainVars, recordVars>>

\* A direct call of generate_folder_path under the destination root.
call_generate_folder_path(f, folder_elements) ==
    LET result == generate_folder_path(f, folder_elements, destination_root,
                                       _counter)
    IN  /\ op.name = "PathGenerator"
        /\ op' = [name |-> "generate_folder_path", file_info |-> f,
                  elements |-> folder_elements, result |-> result]
        /\ _counter' = result.ctr
        /\ UNCHANGED <<pipelineVars, chainVars, recordVars>>

\* --------------------------------------------------- screenshot cache
\* FileInfo objects of a run, each named by its constructor arguments
\* (original_path, source_device).
CacheRecords ==
    {<<PngPath, "iOS">>, <<ScreenshotPath, "">>, <<VideoPath, "">>}

\* The FileInfo object r with the metadata it holds now.
cache_record(r, current) ==
    [original_path |-> r[1], source_device |-> r[2], metadata |-> current,
     last_modified |-> [day |-> 1, time |-> 1]]

\* What _extract_image_metadata can return for an image or raw file, and
\* _extract_audio_video_metadata for a video or audio file; {} when the
\* library raises.
Extractable(r) ==
    IF _guess_media_type(r[1]) \in {"image", "raw"}
    THEN {NoMetadata,
          [NoMetadata EXCEPT !.software = ScreenshotSoftware],
          [NoMetadata EXCEPT !.width = 750, !.height = 1334]}
    ELSE {NoMetadata,
          [NoMetadata EXCEPT !.datetime = date_string("%Y-%m-%d", 1, 0)]}

\* FileInfo.reset_screenshot_cache that leaves the cache as it is.
reset_screenshot_cache_kept(cache, r) == cache

\* FileInfo.reset_screenshot_cache
reset_screenshot_cache(cache, r) == [cache EXCEPT ![r] = None]

\* MetadataExtractor.extract_metadata on record r; exists is
\* os.path.exists(original_path), extracted what the libraries read.
extract_metadata(r, extracted, exists) ==
    /\ op' = [name |-> "extract_metadata", file_info |-> r, exists |-> exists,
              result |-> IF exists THEN extracted ELSE NoMetadata]
    /\ IF ~exists
       THEN UNCHANGED <<metadata, _is_screenshot_cache>>
       ELSE /\ metadata' = [metadata EXCEPT ![r] = extracted]
            /\ _is_screenshot_cache' =
                   reset_screenshot_cache(_is_screenshot_cache, r)
    /\ UNCHANGED <<pipelineVars, chainVars, hash, cancel_requested, _counter>>

\* The body of FileInfo.is_screenshot below the cache test.
classify_screenshot(file_info) ==
    IF media_type(file_info) # "image" THEN FALSE
    ELSE IF _is_screenshot_by_filename(file_info) THEN TRUE
    ELSE IF _is_screenshot_by_path(file_info) THEN TRUE
    ELSE IF _is_screenshot_by_metadata(file_info) THEN TRUE
    ELSE FALSE

\* FileInfo.is_screenshot on record r; a cached answer is <<answer>>.
is_screenshot(r) ==
    LET cached == _is_screenshot_cache[r]
        result == IF cached # None THEN cached[1]
                  ELSE classify_screenshot(cache_record(r, metadata[r]))
    IN  /\ _is_screenshot_cache' =
               [_is_screenshot_cache EXCEPT ![r] = <<result>>]
        /\ op' = [name |-> "is_screenshot", file_info |-> r, result |-> result]
        /\ UNCHANGED <<pipelineVars, chainVars, metadata, hash,
                       cancel_requested, _counter>>

\* --------------------------------------------------- SequenceElement calls
\* The SequenceElement instance of one parsed file name pattern, configured
\* with one digit.
NameSequence == SequenceElement(1, 1)

\* A direct call of SequenceElement.generate; the record is not read.
call_SequenceElement_generate(element) ==
    /\ _counter[element.id] < MaxRenders
    /\ op' = [name |-> "SequenceElement.generate", element |-> element,
              result |-> generate(element, file_info_list[1], _counter)]
    /\ _counter' = [_counter EXCEPT ![element.id] = @ + 1]
    /\ UNCHANGED <<pipelineVars, chainVars, recordVars>>

\* generate_target_paths with the numbered file name pattern.
generate_numbered ==
    /\ _counter[NameSequence.id] < MaxRenders
    /\ generate_target_paths(<<>>, <<NameSequence>>)

\* --------------------------------------------------- specifications
\* The pipeline on one scanned working set.
Next ==
    \/ find_associated_files
    \/ \E fo \in FolderPatterns, fi \in FilenamePatterns :
          generate_target_paths(fo, fi)
    \/ \E d \in DuplicateHandling : resolve_path_conflicts(d)
    \/ \E unreadable \in SUBSET Attemptable : copy_files(unreadable)

Spec == Init /\ [][Next]_vars

\* A FilterChain under construction.
InitChain ==
    /\ file_info_list = <<>>
    /\ status = [f \in Files |-> "pending"]
    /\ error_message = [f \in Files |-> ""]
    /\ target_path = [f \in Files |-> None]
    /\ associated_files = [f \in Files |-> <<>>]
    /\ op = [name |-> "FilterChain"]
    /\ success_count = 0
    /\ progress_calls = <<>>
    /\ copy_attempts = <<>>
    /\ filters = <<>>
    /\ registered = <<>>
    /\ filter_config = DefaultConfig
    /\ stats = EmptyStats
    /\ fresh_records

NextChain == \E f \in FilterInstances : add_filter(f)

SpecChain == InitChain /\ [][NextChain]_vars

\* find_associated_files on any scanned list of the source tree.
InitAssoc ==
    /\ file_info_list \in InjSeqs(Files, MaxFiles)
    /\ status = [f \in Files |-> "pending"]
    /\ error_message = [f \in Files |-> ""]
    /\ target_path = [f \in Files |-> None]
    /\ associated_files = [f \in Files |-> <<>>]
    /\ op = [name |-> "scan_directory"]
    /\ success_count = 0
    /\ progress_calls = <<>>
    /\ copy_attempts = <<>>
    /\ filters = <<>>
    /\ registered = <<>>
    /\ filter_config = DefaultConfig
    /\ stats = EmptyStats
    /\ fresh_records

NextAssoc == find_associated_files

SpecAssoc == InitAssoc /\ [][NextAssoc]_vars

\* One filter, constructed from its configuration, checking records.
InitCheck ==
    /\ file_info_list = <<>>
    /\ status = [f \in Files |-> "pending"]
    /\ error_message = [f \in Files |-> ""]
    /\ target_path = [f \in Files |-> None]
    /\ associated_files = [f \in Files |-> <<>>]
    /\ op = [name |-> "create_filter"]
    /\ success_count = 0
    /\ progress_calls = <<>>
    /\ copy_attempts = <<>>
    /\ \E constructed \in ConstructedFilters :
          /\ registered = <<[filter_id |-> constructed.filter_id,
                             priority |-> 100, enabled |-> TRUE]>>
          /\ filters = registered
          /\ filter_config = constructed.config
    /\ stats = EmptyStats
    /\ fresh_records

NextCheck == \E file_info \in FileInfos : call_check_file(file_info)

SpecCheck == InitCheck /\ [][NextCheck]_vars

\* A chain built by create_filter_chain, evaluating scanned records.
InitEval ==
    /\ file_info_list = <<>>
    /\ status = [f \in Files |-> "pending"]
    /\ error_message = [f \in Files |-> ""]
    /\ target_path = [f \in Files |-> None]
    /\ associated_files = [f \in Files |-> <<>>]
    /\ op = [name |-> "create_filter_chain"]
    /\ success_count = 0
    /\ progress_calls = <<>>
    /\ copy_attempts = <<>>
    /\ registered \in ChainRegistrations
    /\ filters = create_filter_chain(registered)
    /\ filter_config \in ChainConfigs
    /\ stats = EmptyStats
    /\ fresh_records

NextEval == \E file_info \in ScannedRecords : should_include_file(file_info)

SpecEval == InitEval /\ [][NextEval]_vars

\* The PathGenerator rendering one record with one element list.
InitRender ==
    /\ file_info_list = <<>>
    /\ status = [f \in Files |-> "pending"]
    /\ error_message = [f \in Files |-> ""]
    /\ target_path = [f \in Files |-> None]
    /\ associated_files = [f \in Files |-> <<>>]
    /\ op = [name |-> "PathGenerator"]
    /\ success_count = 0
    /\ progress_calls = <<>>
    /\ copy_attempts = <<>>
    /\ filters = <<>>
    /\ registered = <<>>
    /\ filter_config = DefaultConfig
    /\ stats = EmptyStats
    /\ \E extracted \in RenderMetadata : metadata = [f \in Files |-> extracted]
    /\ hash = [f \in Files |-> None]
    /\ _is_screenshot_cache = [f \in Files |-> None]
    /\ _counter = [id \in SequenceIds |-> 0]
    /\ cancel_requested = FALSE

NextRender ==
    \/ \E f \in Files, elements \in RenderPatterns :
          call_generate_filename(f, elements)
    \/ \E f \in Files, elements \in RenderPatterns :
          call_generate_folder_path(f, elements)

SpecRender == InitRender /\ [][NextRender]_vars

\* One run of the command line's copy_process on a scanned working set.
InitCli == Init

NextCli == copy_process

SpecCli == InitCli /\ [][NextCli]_vars

\* A scan of a source directory some of whose entries cannot be reached.
InitScan ==
    /\ file_info_list = <<>>
    /\ status = [f \in Files |-> "pending"]
    /\ error_message = [f \in Files |-> ""]
    /\ target_path = [f \in Files |-> None]
    /\ associated_files = [f \in Files |-> <<>>]
    /\ op = [name |-> "FileOperations"]
    /\ success_count = 0
    /\ progress_calls = <<>>
    /\ copy_attempts = <<>>
    /\ filters = <<>>
    /\ registered = <<>>
    /\ filter_config = DefaultConfig
    /\ stats = EmptyStats
    /\ fresh_records

NextScan ==
    \/ /\ op.name = "FileOperations"
       /\ \E entries \in InjSeqs(Files, MaxFiles), recursive \in BOOLEAN :
             \E inaccessible \in SUBSET Range(entries) :
                scan_directory(entries, inaccessible, recursive)
    \/ /\ op.name = "FileOperations"
       /\ \E entries \in InjSeqs(Files, MaxFiles), recursive \in BOOLEAN :
             \E inaccessible \in SUBSET Range(entries) :
                scan_directory_with_filter_chain(entries, inaccessible, recursive)

SpecScan == InitScan /\ [][NextScan]_vars

\* The main window after a scan: preview and copy in the order the user
\* presses the buttons.
InitGui == Init

NextGui ==
    \/ _preview_operation
    \/ \E unreadable \in SUBSET Attemptable : _start_copy_operation(unreadable)
    \/ request_cancel

SpecGui == InitGui /\ [][NextGui]_vars

\* FileInfo objects between their construction and the end of the run:
\* extraction and classification in any order.
InitCache ==
    /\ file_info_list = <<>>
    /\ status = [f \in Files |-> "pending"]
    /\ error_message = [f \in Files |-> ""]
    /\ target_path = [f \in Files |-> None]
    /\ associated_files = [f \in Files |-> <<>>]
    /\ op = [name |-> "FileInfo"]
    /\ success_count = 0
    /\ progress_calls = <<>>
    /\ copy_attempts = <<>>
    /\ filters = <<>>
    /\ registered = <<>>
    /\ filter_config = DefaultConfig
    /\ stats = EmptyStats
    /\ metadata = [r \in CacheRecords |-> NoMetadata]
    /\ hash = [f \in Files |-> None]
    /\ _is_screenshot_cache = [r \in CacheRecords |-> None]
    /\ _counter = [id \in SequenceIds |-> 0]
    /\ cancel_requested = FALSE

NextCache ==
    \/ \E r \in CacheRecords, exists \in BOOLEAN :
          \E extracted \in Extractable(r) : extract_metadata(r, extracted, exists)
    \/ \E r \in CacheRecords : is_screenshot(r)

SpecCache == InitCache /\ [][NextCache]_vars

\* Numbered patterns on a scanned working set: association, generation and
\* further render calls on the same element instances.
InitSequence == Init

NextSequence ==
    \/ find_associated_files
    \/ generate_numbered
    \/ call_SequenceElement_generate(NameSequence)

SpecSequence == InitSequence /\ [][NextSequence]_vars

\* =================================================== properties
\* Records of the working set with the given target path, in discovery order.
members(tp) ==
    LET SamePath(f) == target_path[f] = tp IN SelectSeq(file_info_list, SamePath)

\* Target paths carried by some record of the working set.
used_paths == {target_path[f] : f \in Range(file_info_list)} \ {None}

resolved_with(policies) ==
    /\ op.name = "resolve_path_conflicts"
    /\ op.duplicate_handling \in policies

\* C1: after resolve_path_conflicts with skip, overwrite or rename on a
\* working set whose target paths are all generated, no two distinct pending
\* records share a target path.
C1_NoPendingCollision ==
    (/\ resolved_with({"skip", "overwrite", "rename"})
     /\ \A f \in Range(file_info_list) : target_path[f] # None)
    => \A f, g \in Range(file_info_list) :
          (f # g /\ status[f] = "pending" /\ status[g] = "pending")
          => target_path[f] # target_path[g]

\* C2: resolve_path_conflicts leaves the status and the target path of every
\* record alone whose target path no other record shares, whatever the
\* policy, also when the record is a sidecar that is listed and linked.
C2_SingletonsUntouched ==
    [][op'.name = "resolve_path_conflicts"
       => \A f \in Range(file_info_list) :
             (/\ target_path[f] # None
              /\ \A g \in Range(file_info_list) \ {f} :
                    target_path[g] # target_path[f])
             => /\ status'[f] = status[f]
                /\ target_path'[f] = target_path[f]]_vars

\* C3: under rename, in every group of records with the same target path the
\* first record keeps its path, the i-th subsequent record gets
\* {base}_{i}{ext}, no status changes, and the group's final paths are
\* pairwise distinct.
C3_RenameScheme ==
    [][(op'.name = "resolve_path_conflicts" /\ op'.duplicate_handling = "rename")
       => /\ status' = status
          /\ \A tp \in used_paths :
                LET m == members(tp)
                IN  /\ target_path'[m[1]] = tp
                    /\ \A i \in 1..(Len(m) - 1) :
                          target_path'[m[i + 1]] = renamed_path(tp, i)
                    /\ \A i, j \in 1..Len(m) :
                          i # j => target_path'[m[i]] # target_path'[m[j]]]_vars

\* C4: under overwrite, in every group of two or more pending records with
\* the same target path exactly one member stays pending, it has the group's
\* maximum last-modified time, and every other member is skipped.
C4_OverwriteKeepsNewest ==
    [][(op'.name = "resolve_path_conflicts" /\ op'.duplicate_handling = "overwrite")
       => \A tp \in used_paths :
             LET m == Range(members(tp))
             IN  (Cardinality(m) >= 2 /\ \A f \in m : status[f] = "pending")
                 => \E keep \in m :
                       /\ status'[keep] = "pending"
                       /\ \A f \in m : last_modified(f) <= last_modified(keep)
                       /\ \A f \in m \ {keep} : status'[f] = "skipped"]_vars

\* C5: under skip, in every group of two or more records with the same
\* target path the first record in discovery order stays pending, every
\* other member ends skipped with the reason "Duplicate path", and no target
\* path changes.
C5_SkipKeepsFirst ==
    [][(op'.name = "resolve_path_conflicts" /\ op'.duplicate_handling = "skip")
       => /\ target_path' = target_path
          /\ \A tp \in used_paths :
                LET m == members(tp)
                IN  Len(m) >= 2
                    => /\ status'[m[1]] = status[m[1]]
                       /\ \A i \in 2..Len(m) :
                             /\ status'[m[i]] = "skipped"
                             /\ error_message'[m[i]] = "Duplicate path"]_vars

\* Every listed record is pending with a target path.
all_pending == \A f \in Range(file_info_list) : f \in Attemptable

\* C6: copy_files on N pending records of which exactly one raises an I/O
\* error leaves that record in error with the failure message and every
\* other record copied, wherever the failing record stands.
C6_FailureIsolated ==
    [][(op'.name = "copy_files" /\ all_pending
          /\ Cardinality(op'.unreadable) = 1)
       => \A f \in Range(file_info_list) :
             IF f \in op'.unreadable
             THEN status'[f] = "error" /\ error_message'[f] = io_error
             ELSE status'[f] = "copied"]_vars

\* A copy run in which one linked sidecar, listed after its primary and
\* before another record, failed and the other records were copied.
C6_Witness ==
    /\ op.name = "copy_files"
    /\ Cardinality(op.unreadable) = 1
    /\ Len(copy_attempts) >= 3
    /\ \E k \in 2..(Len(file_info_list) - 1) :
          LET f == file_info_list[k]
          IN  /\ op.unreadable = {f}
              /\ status[f] = "error"
              /\ \E m \in Range(file_info_list) : f \in Range(associated_files[m])
              /\ \A g \in Range(file_info_list) \ {f} : status[g] = "copied"

\* C7: with N records pending with a target path at the start, copy_files
\* calls progress exactly N times, with processedCount 1..N and
\* totalPendingCount N in every call, linked sidecars included.
C7_ProgressPerRecord ==
    [][op'.name = "copy_files"
       => LET N == Cardinality(Attemptable)
          IN  /\ Len(progress_calls') = N
              /\ \A k \in 1..Len(progress_calls') :
                    /\ progress_calls'[k][1] = k
                    /\ progress_calls'[k][2] = N]_vars

\* C8: after the outcome of a primary, copied or error, copy_files attempts
\* each of its sidecars that is still pending in the primary's cascade, each
\* on its own: a sidecar's failure marks that sidecar only.
C8_CascadeAfterAnyOutcome ==
    [][op'.name = "copy_files"
       => \A i \in 1..Len(copy_attempts') :
             LET p == copy_attempts'[i].file
                 earlier == {copy_attempts'[j].file : j \in 1..(i - 1)}
             IN  copy_attempts'[i].cascade_of = None
                 => /\ status'[p] =
                          (IF p \in op'.unreadable THEN "error" ELSE "copied")
                    /\ \A a \in Range(associated_files[p]) :
                          (/\ status[a] = "pending"
                           /\ target_path[a] # None
                           /\ a \notin earlier)
                          => /\ \E j \in (i + 1)..Len(copy_attempts') :
                                   copy_attempts'[j] =
                                       [file |-> a, cascade_of |-> p]
                             /\ status'[a] =
                                   (IF a \in op'.unreadable
                                    THEN "error" ELSE "copied")]_vars

\* C9: when no record is copied before the run, copy_files returns the number
\* of distinct records that are copied when it returns, a record that is
\* both listed and linked as a sidecar counted once.
C9_ReturnsCopiedCount ==
    [][(op'.name = "copy_files"
          /\ \A f \in Range(file_info_list) : status[f] # "copied")
       => success_count' =
             Cardinality({f \in Range(file_info_list) : status'[f] = "copied"})]_vars

\* A run that copied a primary and a sidecar that is also a listed record.
C9_Witness ==
    /\ op.name = "copy_files"
    /\ success_count >= 2
    /\ \E m, f \in Range(file_info_list) :
          /\ f \in Range(associated_files[m])
          /\ status[m] = "copied"
          /\ status[f] = "copied"
          /\ \E i, j \in 1..Len(copy_attempts) :
                /\ copy_attempts[i] = [file |-> f, cascade_of |-> None]
                /\ copy_attempts[j] = [file |-> m, cascade_of |-> None]
                /\ i < j

\* Position of a filter instance in the order of registration.
registration_index(x) == CHOOSE k \in 1..Len(registered) : registered[k] = x

\* C10: after any sequence of add_filter calls, filters holds the enabled
\* registered filters ascending by priority, equal priorities in the order of
\* registration.
C10_SortedStable ==
    /\ Range(filters) = {x \in Range(registered) : x.enabled}
    /\ \A i, j \in 1..Len(filters) :
          i < j
          => /\ filters[i].priority <= filters[j].priority
             /\ filters[i].priority = filters[j].priority
                => registration_index(filters[i]) < registration_index(filters[j])

\* Two filters of equal priority, and a filter of lower priority registered
\* after both of them and sorted before them.
C10_Witness ==
    \E i, j, k \in 1..Len(filters) :
        /\ i < j /\ j < k
        /\ filters[j].priority = filters[k].priority
        /\ filters[i].priority < filters[j].priority
        /\ registration_index(filters[i]) > registration_index(filters[k])

\* --------------------------------------------------- FilterChain evaluation
\* The registered filter with the given id.
registered_filter(filter_id) ==
    CHOOSE x \in Range(registered) : x.filter_id = filter_id

\* a is run before b: lower priority value first, registration order among
\* equal priorities.
runs_before(a, b) ==
    \/ a.priority < b.priority
    \/ a.priority = b.priority /\ registration_index(a) < registration_index(b)

enabled_ids == {x.filter_id : x \in {y \in Range(registered) : y.enabled}}

\* C11: a should_include_file that returns has run only enabled filters, in
\* priority order, each of them including the record except the last one when
\* the record is excluded; the reason is that last filter's reason, no filter
\* due after it has run, and the metadata holds exactly the entries of the
\* filters run; an included record has reason None and every enabled filter
\* has run.
C11_FailFast ==
    (op.name = "should_include_file" /\ ~op.outcome.raised) =>
        LET ran == op.outcome.ran
            verdict(id) == check_file(id, filter_config, op.file_info)
        IN  /\ Range(ran) \subseteq enabled_ids
            /\ \A i, j \in 1..Len(ran) :
                  i < j => runs_before(registered_filter(ran[i]),
                                       registered_filter(ran[j]))
            /\ DOMAIN op.outcome.filter_metadata = Range(ran)
            /\ \A id \in Range(ran) :
                  op.outcome.filter_metadata[id] = verdict(id).metadata
            /\ \A k \in 1..(Len(ran) - 1) : verdict(ran[k]).include
            /\ IF op.outcome.include
               THEN /\ op.outcome.reason = NoReason
                    /\ Range(ran) = enabled_ids
                    /\ \A id \in Range(ran) : verdict(id).include
               ELSE /\ ran # <<>>
                    /\ ~verdict(ran[Len(ran)]).include
                    /\ op.outcome.reason = verdict(ran[Len(ran)]).reason
                    /\ \A id \in enabled_ids \ Range(ran) :
                          runs_before(registered_filter(ran[Len(ran)]),
                                      registered_filter(id))

\* A record rejected by the second of three enabled filters.
C11_Witness ==
    /\ op.name = "should_include_file"
    /\ ~op.outcome.raised
    /\ ~op.outcome.include
    /\ Len(filters) = 3
    /\ Len(op.outcome.ran) = 2

\* C12: should_include_file never lets an exception of a check_file escape; it
\* returns a decision.
C12_NoExceptionEscapes ==
    op.name = "should_include_file" => ~op.outcome.raised

\* Sum of the per-filter exclusion counts.
RECURSIVE sum_counts(_, _)
sum_counts(counts, keys) ==
    IF keys = {} THEN 0
    ELSE LET k == CHOOSE x \in keys : TRUE
         IN  counts[k] + sum_counts(counts, keys \ {k})

exclusion_count(st, filter_id) ==
    IF filter_id \in DOMAIN st.exclusion_by_filter
    THEN st.exclusion_by_filter[filter_id] ELSE 0

\* C13: total_files = included_files + excluded_files and the per-filter
\* exclusion counts sum to excluded_files in every state, and every
\* evaluation that returns a decision adds one to total_files and, when it
\* excludes, one to the count of the filter that rejected the record and to
\* no other count.
C13_StatsConsistent ==
    /\ [](/\ stats.total_files = stats.included_files + stats.excluded_files
          /\ sum_counts(stats.exclusion_by_filter,
                        DOMAIN stats.exclusion_by_filter) = stats.excluded_files)
    /\ [][(op'.name = "should_include_file" /\ ~op'.outcome.raised) =>
            /\ stats'.total_files = stats.total_files + 1
            /\ \A id \in FilterIds \cup DOMAIN stats'.exclusion_by_filter :
                  exclusion_count(stats', id) =
                      exclusion_count(stats, id) +
                      (IF /\ ~op'.outcome.include
                          /\ id = op'.outcome.ran[Len(op'.outcome.ran)]
                       THEN 1 ELSE 0)]_vars

\* One record included and one excluded by the same chain.
C13_Witness ==
    /\ op.name = "should_include_file"
    /\ stats.included_files = 1
    /\ stats.excluded_files = 1

\* --------------------------------------------------- DateRangeFilter
\* The datetime a configured bound or a metadata value denotes.
bound_datetime(date_str) == [day |-> date_str.day, time |-> date_str.time]

\* The state follows a check_file call on the filter with the given id.
checked(filter_id) ==
    /\ op.name = "check_file"
    /\ filters[1].filter_id = filter_id

\* C18: a record whose date is determined is included iff it is not before
\* the start bound and not after the end bound, an end bound given as a
\* calendar day covering that whole day; a record before the start bound and
\* within the end bound is excluded with a reason naming its date and the
\* start bound.
C18_InclusiveBounds ==
    (checked("date_range") /\ op.result.metadata.file_date # NoDatetime) =>
        LET config == filter_config.date_range
            file_date == op.result.metadata.file_date
            before_start ==
                /\ config.startDate # NoString
                /\ datetime_lt(file_date, bound_datetime(config.startDate))
            after_end ==
                /\ config.endDate # NoString
                /\ IF config.endDate.format \in DateOnlyFormats
                   THEN file_date.day > config.endDate.day
                   ELSE datetime_lt(bound_datetime(config.endDate), file_date)
        IN  /\ op.result.include <=> (~before_start /\ ~after_end)
            /\ (before_start /\ ~after_end) =>
                  op.result.reason =
                      <<"File date", file_date.day,
                        "is before start date", config.startDate.day>>

\* No strptime format of _parse_date reads the string (None included).
unparseable(date_str) ==
    date_str.format \notin DateOnlyFormats \cup DateTimeFormats

\* No date can be determined for the checked record.
date_undeterminable ==
    /\ ~filter_config.date_range.use_file_modified_date
    /\ \/ ~filter_config.date_range.use_metadata_date
       \/ \A key \in {filter_config.date_range.date_field, "datetime",
                      "dateTimeOriginal", "dateTimeDigitized"} :
             unparseable(metadata_get(op.file_info, key))

\* C19: when no date can be determined, check_file returns include = true
\* without raising, whatever the bounds.
C19_UnknownDateIncluded ==
    (checked("date_range") /\ date_undeterminable) =>
        /\ ~op.result.raised
        /\ op.result.include

\* Both bounds set, the configured field malformed and no fallback present.
C19_Witness ==
    /\ checked("date_range")
    /\ date_undeterminable
    /\ filter_config.date_range.use_metadata_date
    /\ filter_config.date_range.startDate # NoString
    /\ filter_config.date_range.endDate # NoString
    /\ op.file_info.metadata.datetime = MalformedDate
    /\ op.result.include

\* --------------------------------------------------- ScreenshotFilter
\* The enabled signals that match the checked record, in the order they are
\* consulted.
matching_signals ==
    LET config == filter_config.screenshot
        signal(matches, method) == IF matches THEN <<method>> ELSE <<>>
    IN  signal(\E k \in 1..Len(config.custom_patterns) :
                   StartsWith(lower(basename(op.file_info.original_path)),
                              lower(config.custom_patterns[k])),
               "custom_pattern")
        \o signal(config.enable_filename_pattern
                      /\ _is_screenshot_by_filename(op.file_info),
                  "filename_pattern")
        \o signal(config.enable_path_pattern
                      /\ _is_screenshot_by_path(op.file_info),
                  "path_pattern")
        \o signal(config.enable_metadata_pattern
                      /\ _is_screenshot_by_metadata(op.file_info),
                  "metadata_pattern")
        \o signal(config.enable_resolution_detection
                      /\ _detect_by_resolution(config, op.file_info),
                  "resolution_pattern")

\* C20: a check_file of an excluding ScreenshotFilter that returns includes
\* every record that is no image; for an image the first matching enabled
\* signal in the order custom, filename, path, metadata, resolution excludes
\* the record and is the detection method, and without a matching signal the
\* image is included; IMG_0001.PNG without custom, path or metadata signal
\* is excluded by filename_pattern when that signal is enabled.
C20_FirstSignalDecides ==
    (/\ checked("screenshot")
     /\ filter_config.screenshot.exclude_screenshots
     /\ ~op.result.raised) =>
        /\ IF original_extension(op.file_info.original_path)
                \notin image_extensions
              \/ matching_signals = <<>>
           THEN op.result.include
           ELSE /\ ~op.result.include
                /\ op.result.metadata.detection_method = Head(matching_signals)
        /\ (/\ op.file_info.original_path = ScreenshotPath
            /\ op.file_info.metadata = NoMetadata
            /\ filter_config.screenshot.custom_patterns = <<>>
            /\ filter_config.screenshot.enable_filename_pattern) =>
              /\ ~op.result.include
              /\ op.result.metadata.detection_method = "filename_pattern"

\* IMG_0001.PNG carrying a metadata signal as well: the file name decides.
C20_Witness ==
    /\ checked("screenshot")
    /\ filter_config.screenshot = DefaultScreenshot
    /\ op.file_info.original_path = ScreenshotPath
    /\ op.file_info.metadata.software = ScreenshotSoftware
    /\ ~op.result.include
    /\ op.result.metadata.detection_method = "filename_pattern"

\* --------------------------------------------------- FileInfo.status
\* C15: across any sequence of pipeline stages a record's status changes only
\* from pending to copied, skipped or error; a record that has left pending
\* keeps its status.
C15_StatusMonotonic ==
    [][\A f \in Files :
          status'[f] # status[f] =>
              /\ status[f] = "pending"
              /\ status'[f] \in {"copied", "skipped", "error"}]_vars

\* --------------------------------------------------- sidecar association
\* Primaries whose associated_files hold f.
owners(f) == {m \in Files : f \in Range(associated_files[m])}

\* C16: after find_associated_files every linked record is in the
\* associated_files of exactly one primary and has no associated_files of
\* its own.
C16_OneLevelTree ==
    op.name = "find_associated_files" =>
        \A f \in Files :
            owners(f) # {} =>
                /\ Cardinality(owners(f)) = 1
                /\ associated_files[f] = <<>>

\* Records of the list in the same directory with the same base name as f.
same_base(f) ==
    {g \in Range(file_info_list) :
        /\ dirname(g) = dirname(f)
        /\ splitext(basename(g))[1] = splitext(basename(f))[1]}

has_sidecar_extension(f) == original_extension(f) \in associated_file_extensions

list_index(f) == CHOOSE k \in 1..Len(file_info_list) : file_info_list[k] = f

\* A record that is no sidecar, or the first of a group of sidecars only.
is_primary(f) ==
    \/ ~has_sidecar_extension(f)
    \/ \A g \in same_base(f) :
          has_sidecar_extension(g) /\ list_index(f) <= list_index(g)

\* The sidecars of f's group that are not promoted, in discovery order.
sidecars_of(f) ==
    LET IsChild(g) ==
            g \in same_base(f) /\ has_sidecar_extension(g) /\ ~is_primary(g)
    IN  SelectSeq(file_info_list, IsChild)

\* C17: find_associated_files makes the sidecar-extension records of each
\* (directory, base name) group the children of the group's other records,
\* promotes the first sidecar of a group of sidecars only, and returns one
\* entry per primary listing its sidecars.
C17_GroupsByBaseName ==
    op.name = "find_associated_files" =>
        /\ DOMAIN op.associations = {f \in Range(file_info_list) : is_primary(f)}
        /\ \A f \in Range(file_info_list) :
              IF is_primary(f)
              THEN /\ associated_files[f] = sidecars_of(f)
                   /\ op.associations[f] = sidecars_of(f)
              ELSE associated_files[f] = <<>>

\* One picture with its xmp and aae sidecars: one primary, two sidecars.
C17_Witness ==
    /\ op.name = "find_associated_files"
    /\ file_info_list = << <<"p", "/", "a", ".", "j">>,
                           <<"p", "/", "a", ".", "x">>,
                           <<"p", "/", "a", ".", "e">> >>
    /\ DOMAIN op.associations = {<<"p", "/", "a", ".", "j">>}
    /\ op.associations[<<"p", "/", "a", ".", "j">>] =
          << <<"p", "/", "a", ".", "x">>, <<"p", "/", "a", ".", "e">> >>

\* --------------------------------------------------- PathGenerator
\* The elements of a list that contribute a part for the record: those that
\* render a non-empty string.
contributing(elements, f) ==
    {k \in 1..Len(elements) :
        /\ ~is_number(elements[k])
        /\ generate(elements[k], f, _counter) # <<>>}

\* The extension of the source path: what follows the last dot of its last
\* component, in lower case.
source_extension(f) ==
    LET name == basename(f)
        dot == RFind(name, ".")
    IN  IF dot <= 1 THEN <<>> ELSE lower(SubSeq(name, dot + 1, Len(name)))

\* C21: whenever generate_filename returns, the name ends with "." followed
\* by the extension of the record's source path, whatever the pattern holds;
\* what precedes that suffix is "file" when no element contributed a part,
\* and the concatenation of the contributed parts otherwise.
C21_ExtensionFromRecord ==
    (op.name = "generate_filename" /\ ~op.result.raised) =>
        LET f == op.file_info
            name == op.result.filename
            suffix == <<".">> \o source_extension(f)
            stem == SubSeq(name, 1, Len(name) - Len(suffix))
        IN  /\ EndsWith(name, suffix)
            /\ original_extension(f) = source_extension(f)
            /\ stem # <<>>
            /\ contributing(op.elements, f) = {} => stem = <<"f", "i", "l", "e">>
            /\ \A k \in contributing(op.elements, f) :
                  Contains(stem, sanitize(generate(op.elements[k], f, _counter)))

C21_Witness ==
    /\ op.name = "generate_filename"
    /\ op.file_info = <<"q", "/", "a", ".", "X">>
    /\ op.elements = <<LiteralElement(<<>>), LiteralElement(<<".", "j">>)>>
    /\ op.result.filename = <<".", "j", ".", "x">>

\* Number of path separators in a path.
separators(path) == Cardinality({k \in 1..Len(path) : path[k] = "/"})

\* C22: whenever generate_folder_path returns, the path is the destination
\* root followed by exactly one component per contributing element, and
\* whenever generate_filename returns, the filename holds no separator.
C22_NoSeparatorIntroduced ==
    /\ (op.name = "generate_folder_path" /\ ~op.result.raised) =>
          /\ StartsWith(op.result.path, destination_root)
          /\ separators(op.result.path) =
                separators(destination_root)
                    + Cardinality(contributing(op.elements, op.file_info))
          /\ op.result.path[Len(op.result.path)] # "/"
          /\ ~Contains(op.result.path, <<"/", "/">>)
    /\ (op.name = "generate_filename" /\ ~op.result.raised) =>
          separators(op.result.filename) = 0

C22_Witness ==
    /\ op.name = "generate_folder_path"
    /\ op.elements = <<LiteralElement(<<"a", "/", "b">>), MetadataElement("datetime")>>
    /\ metadata[op.file_info].datetime = date_string("%Y/%m/%d", 2, 0)
    /\ op.result.path =
          <<"r", "/", "a", "_", "b", "/",
            "2", "0", "2", "4", "_", "0", "1", "_", "0", "2">>

\* --------------------------------------------------- copy_process stages
\* The records generate_target_paths renders: the listed ones and their
\* associated files.
rendered_records ==
    Range(file_info_list)
        \cup UNION {Range(associated_files[m]) : m \in Range(file_info_list)}

\* C23: a record has no target path until generate_target_paths has run, the
\* only step that gives a path to a record without one is
\* generate_target_paths, and it gives one only to the records it renders.
C23_TargetOnlyFromGenerator ==
    /\ [](op.name \in {"scan_directory", "find_associated_files"} =>
             \A f \in Files : target_path[f] = None)
    /\ [][\A f \in Files :
             (target_path[f] = None /\ target_path'[f] # None) =>
                 op'.name = "generate_target_paths" /\ f \in rendered_records]_vars

C23_Witness ==
    /\ op.name = "copy_files"
    /\ \E f, g \in Range(file_info_list) :
          /\ target_path[f] = None
          /\ status[f] = "error"
          /\ f # g

\* C24: check_duplicates returns, keyed by hash, exactly the groups of two or
\* more listed records that have a target path and a computable hash and
\* whose contents are equal, each group in list order, and it leaves every
\* status, error message and target path as it was.
C24_ReportingOnly ==
    [][op'.name = "check_duplicates" =>
          LET hashable == {f \in Range(file_info_list) :
                              /\ target_path[f] # None
                              /\ (hash[f] # None \/ f \notin op'.unreadable)}
              digest(f) == IF hash[f] # None THEN hash[f]
                           ELSE hexdigest(content[f])
              same(f) == {g \in hashable : digest(g) = digest(f)}
              duplicates == op'.duplicates
          IN  /\ \A h \in DOMAIN duplicates :
                    /\ Len(duplicates[h]) > 1
                    /\ Range(duplicates[h]) = {f \in hashable : digest(f) = h}
                    /\ \A i, j \in 1..Len(duplicates[h]) :
                          i < j => list_index(duplicates[h][i])
                                       < list_index(duplicates[h][j])
              /\ \A f \in hashable :
                    Cardinality(same(f)) > 1 => digest(f) \in DOMAIN duplicates
              /\ status' = status
              /\ error_message' = error_message
              /\ target_path' = target_path]_vars

C24_Witness ==
    /\ op.name = "check_duplicates"
    /\ DOMAIN op.duplicates = {hexdigest("2")}
    /\ \E f \in Range(file_info_list) :
          /\ f \in op.unreadable
          /\ target_path[f] # None
          /\ hash[f] = None

\* C25: generate_target_paths leaves every listed record either with status
\* error, the message of the failure and its target path untouched, or with
\* a target path and its status untouched; and copy_files attempts no record
\* that carries the message of a failed generation.
C25_RenderErrorExcluded ==
    /\ [][op'.name = "generate_target_paths" =>
             \A f \in Range(file_info_list) :
                \/ /\ status'[f] = "error"
                   /\ error_message'[f] = render_error
                   /\ target_path'[f] = target_path[f]
                \/ /\ target_path'[f] # None
                   /\ status'[f] = status[f]
                   /\ error_message'[f] = error_message[f]]_vars
    /\ [][op'.name = "copy_files" =>
             \A k \in 1..Len(copy_attempts') :
                error_message[copy_attempts'[k].file] # render_error]_vars

C25_Witness ==
    /\ op.name = "copy_files"
    /\ Len(file_info_list) > 1
    /\ \A f \in Range(file_info_list) :
          /\ status[f] = "error"
          /\ error_message[f] = render_error
    /\ copy_attempts = <<>>

\* --------------------------------------------------- scanning
\* C26: a scan returns every entry whose record could be created, in
\* enumeration order, whatever entries before or after it could not.
C26_InaccessibleSkipped ==
    op.name \in {"scan_directory", "scan_directory_with_filter_chain"} =>
        LET Accessible(f) == f \notin op.inaccessible
        IN  file_info_list = SelectSeq(op.entries, Accessible)

\* --------------------------------------------------- cancellation, barriers
\* C27: a copy_files that starts after cancellation was requested starts no
\* record's copy.
C27_CooperativeCancel ==
    [][(cancel_requested /\ op'.name = "copy_files") =>
          copy_attempts' = <<>>]_vars

C29_CacheNeverStale ==
    /\ [](\A r \in DOMAIN _is_screenshot_cache :
             _is_screenshot_cache[r] # None =>
                 _is_screenshot_cache[r][1] =
                     classify_screenshot(cache_record(r, metadata[r])))
    /\ [][op'.name = "is_screenshot" =>
             op'.result = classify_screenshot(
                              cache_record(op'.file_info,
                                           metadata'[op'.file_info]))]_vars

\* A record answered TRUE on the strength of extracted metadata alone.
C29_Witness ==
    /\ op.name = "is_screenshot"
    /\ op.result
    /\ metadata[op.file_info] # NoMetadata
    /\ ~classify_screenshot(cache_record(op.file_info, NoMetadata))
    /\ \E r \in DOMAIN _is_screenshot_cache :
          /\ r # op.file_info
          /\ metadata[r] # NoMetadata
          /\ _is_screenshot_cache[r] = <<FALSE>>

\* --------------------------------------------------- SequenceElement
\* The number in the file name of a generated target path.
rendered_number(path) == splitext(original_filename(path))[1]

\* C30: no counter ever goes down; the render call that finds the counter at
\* k - 1 returns k padded with zeros to the element's digits; and one
\* generate_target_paths gives the records it renders, sidecars included,
\* pairwise different numbers, all of them above the counter it started from.
C30_SequenceMonotone ==
    /\ [][\A id \in SequenceIds : _counter'[id] >= _counter[id]]_vars
    /\ [][op'.name = "SequenceElement.generate" =>
             LET element == op'.element
                 k == _counter[element.id] + 1
             IN  /\ _counter'[element.id] = k
                 /\ op'.result = zfill(str(k), element.digits)]_vars
    /\ [][op'.name = "generate_target_paths" =>
             LET rendered == {f \in Files : target_path'[f] # None}
                 number(f) == rendered_number(target_path'[f])
                 issued == (_counter[NameSequence.id] + 1)
                               .. _counter'[NameSequence.id]
             IN  /\ \A f \in rendered :
                        \E k \in issued :
                           number(f) = zfill(str(k), NameSequence.digits)
                 /\ \A f, g \in rendered : f # g => number(f) # number(g)]_vars

\* A generation that numbers a main file and its sidecar past the one digit
\* configured.
C30_Witness ==
    /\ op.name = "generate_target_paths"
    /\ \E m \in Range(file_info_list) :
          /\ associated_files[m] # <<>>
          /\ target_path[m] # None
          /\ Len(rendered_number(target_path[m])) = 2
          /\ \A a \in Range(associated_files[m]) :
                /\ target_path[a] # None
                /\ rendered_number(target_path[a]) # rendered_number(target_path[m])

====
